---- MODULE Spec2Model ----
(***************************************************************************)
(* Model of the Record Extractor of the payment OCR pipeline               *)
(* (apps/PaymentOCRService/complete-pipeline.py).                          *)
(*                                                                         *)
(* A Python str is a sequence of one-character strings; a line of the      *)
(* document is the " ".join of its OCR words.  Python's 0-based indices    *)
(* are kept 1-based here: line k of the code is texts[k+1].  A float is    *)
(* the pair <<"f", cents>> (the decimal literal read exactly), None is     *)
(* the one-element sequence <<"None">>, which is no str.                   *)
(***************************************************************************)
EXTENDS Integers, Sequences, FiniteSets, TLC

\* ------------------------------------------------------------------------
\* Characters and str methods
\* ------------------------------------------------------------------------
DigitSeq == <<"0", "1", "2", "3", "4", "5", "6", "7", "8", "9">>
UpperSeq == <<"A", "B", "C", "D", "E", "F", "G", "H", "I", "J", "K", "L", "M",
              "N", "O", "P", "Q", "R", "S", "T", "U", "V", "W", "X", "Y", "Z">>
LowerSeq == <<"a", "b", "c", "d", "e", "f", "g", "h", "i", "j", "k", "l", "m",
              "n", "o", "p", "q", "r", "s", "t", "u", "v", "w", "x", "y", "z">>

Range(s) == {s[i] : i \in DOMAIN s}

Digits == Range(DigitSeq)
Uppers == Range(UpperSeq)
Lowers == Range(LowerSeq)

IsDigit(c) == c \in Digits
IsAlpha(c) == c \in Uppers \/ c \in Lowers
IsAlnum(c) == IsAlpha(c) \/ IsDigit(c)
\* \w of the re module
IsWord(c) == IsAlnum(c) \/ c = "_"
\* \s of the re module, and the separator of str.split() and str.strip()
IsSpace(c) == c = " "

DigitVal == [c \in Digits |-> (CHOOSE i \in DOMAIN DigitSeq : DigitSeq[i] = c) - 1]
UpperOf == [c \in Lowers |-> UpperSeq[CHOOSE i \in DOMAIN LowerSeq : LowerSeq[i] = c]]
LowerOf == [c \in Uppers |-> LowerSeq[CHOOSE i \in DOMAIN UpperSeq : UpperSeq[i] = c]]

ToUpper(c) == IF c \in Lowers THEN UpperOf[c] ELSE c
ToLower(c) == IF c \in Uppers THEN LowerOf[c] ELSE c

\* str.upper()
Upper(s) == [i \in 1..Len(s) |-> ToUpper(s[i])]

\* str.title(): a letter that follows a letter is lower-cased, any other
\* letter is upper-cased
Title(s) ==
    [i \in 1..Len(s) |->
        IF i > 1 /\ IsAlpha(s[i - 1]) THEN ToLower(s[i]) ELSE ToUpper(s[i])]

\* s[i-1:] of Python for a 1-based i
From(s, i) == SubSeq(s, i, Len(s))

\* str.strip()
Strip(s) ==
    LET solid == {i \in 1..Len(s) : ~IsSpace(s[i])}
    IN  IF solid = {} THEN <<>>
        ELSE SubSeq(s, CHOOSE i \in solid : \A j \in solid : i <= j,
                       CHOOSE i \in solid : \A j \in solid : i >= j)

\* whether p occurs in s at (1-based) position i
OccursAt(s, p, i) ==
    /\ i >= 1
    /\ i + Len(p) - 1 <= Len(s)
    /\ \A k \in 1..Len(p) : s[i + k - 1] = p[k]

\* str.find(p): the 0-based index of the first occurrence, -1 when none
Find(s, p) ==
    LET at == {i \in 1..(Len(s) + 1) : OccursAt(s, p, i)}
    IN  IF at = {} THEN -1 ELSE (CHOOSE i \in at : \A j \in at : i <= j) - 1

\* p in s
Contains(s, p) == Find(s, p) # -1

\* the end (exclusive) of the run of characters satisfying a class, from i
RECURSIVE SkipSpace(_, _)
SkipSpace(s, i) ==
    IF i <= Len(s) /\ IsSpace(s[i]) THEN SkipSpace(s, i + 1) ELSE i

RECURSIVE SkipDigits(_, _)
SkipDigits(s, i) ==
    IF i <= Len(s) /\ IsDigit(s[i]) THEN SkipDigits(s, i + 1) ELSE i

RECURSIVE SkipAlnum(_, _)
SkipAlnum(s, i) ==
    IF i <= Len(s) /\ IsAlnum(s[i]) THEN SkipAlnum(s, i + 1) ELSE i

RECURSIVE SkipToken(_, _)
SkipToken(s, i) ==
    IF i <= Len(s) /\ ~IsSpace(s[i]) THEN SkipToken(s, i + 1) ELSE i

\* str.split(): the maximal runs of non-space characters
RECURSIVE SplitFrom(_, _)
SplitFrom(s, i) ==
    LET b == SkipSpace(s, i)
        e == SkipToken(s, b)
    IN  IF b > Len(s) THEN <<>>
        ELSE <<SubSeq(s, b, e - 1)>> \o SplitFrom(s, e)

Split(s) == SplitFrom(s, 1)

\* " ".join(words)
RECURSIVE Join(_)
Join(ws) ==
    IF ws = <<>> THEN <<>>
    ELSE IF Len(ws) = 1 THEN ws[1]
    ELSE ws[1] \o <<" ">> \o Join(Tail(ws))

\* \b of the re module at the gap before position i
WordBoundary(s, i) ==
    (i > 1 /\ IsWord(s[i - 1])) # (i <= Len(s) /\ IsWord(s[i]))

\* the least element of a non-empty set of integers
Least(S) == CHOOSE i \in S : \A j \in S : i <= j

None == <<"None">>
Float(cents) == <<"f", cents>>

\* ------------------------------------------------------------------------
\* The regular expressions of the extractor
\* ------------------------------------------------------------------------
Chars(str) ==
    CASE str = "MEMBER NAME" -> <<"M", "E", "M", "B", "E", "R", " ", "N", "A", "M", "E">>
      [] str = "MEMBER ID" -> <<"M", "E", "M", "B", "E", "R", " ", "I", "D">>
      [] str = "OTH INS CD" -> <<"O", "T", "H", " ", "I", "N", "S", " ", "C", "D">>
      [] str = "PA:" -> <<"P", "A", ":">>
      [] str = "DIAG:" -> <<"D", "I", "A", "G", ":">>
      [] str = " PD " -> <<" ", "P", "D", " ">>
      [] str = "PD" -> <<"P", "D">>
      [] str = "MEMBER" -> <<"M", "E", "M", "B", "E", "R">>
      [] str = "NAME:" -> <<"N", "A", "M", "E", ":">>
      [] str = "ID:" -> <<"I", "D", ":">>
      [] str = "OTH" -> <<"O", "T", "H">>
      [] str = "INS" -> <<"I", "N", "S">>
      [] str = "CD:" -> <<"C", "D", ":">>
      [] str = "member" -> <<"m", "e", "m", "b", "e", "r">>
      [] str = "name" -> <<"n", "a", "m", "e">>
      [] str = ":" -> <<":">>
      [] str = "JOHN" -> <<"J", "O", "H", "N">>
      [] str = "SMITH" -> <<"S", "M", "I", "T", "H">>
      [] str = "MARY" -> <<"M", "A", "R", "Y">>
      [] str = "ann" -> <<"a", "n", "n">>
      [] str = "lee" -> <<"l", "e", "e">>
      [] str = "AB1234" -> <<"A", "B", "1", "2", "3", "4">>
      [] str = "CD5678" -> <<"C", "D", "5", "6", "7", "8">>
      [] str = "EF9012" -> <<"E", "F", "9", "0", "1", "2">>
      [] str = "ZZ9999" -> <<"Z", "Z", "9", "9", "9", "9">>
      [] str = "K02" -> <<"K", "0", "2">>
      [] str = "N" -> <<"N">>
      [] str = "7" -> <<"7">>
      [] str = "D2160" -> <<"D", "2", "1", "6", "0">>
      [] str = "2160" -> <<"2", "1", "6", "0">>
      [] str = "D0120" -> <<"D", "0", "1", "2", "0">>
      [] str = "XYZ" -> <<"X", "Y", "Z">>
      [] str = "5" -> <<"5">>
      [] str = "14" -> <<"1", "4">>
      [] str = "33" -> <<"3", "3">>
      [] str = "b" -> <<"b">>
      [] str = "O" -> <<"O">>
      [] str = "mo" -> <<"m", "o">>
      [] str = "061524" -> <<"0", "6", "1", "5", "2", "4">>
      [] str = "123456" -> <<"1", "2", "3", "4", "5", "6">>
      [] str = "110.00" -> <<"1", "1", "0", ".", "0", "0">>
      [] str = "92.00" -> <<"9", "2", ".", "0", "0">>
      [] str = "1,234.56" -> <<"1", ",", "2", "3", "4", ".", "5", "6">>
      [] str = "10.00" -> <<"1", "0", ".", "0", "0">>
      [] str = "20.00" -> <<"2", "0", ".", "0", "0">>
      [] str = "30.00" -> <<"3", "0", ".", "0", "0">>
      [] str = "40.00" -> <<"4", "0", ".", "0", "0">>
      [] str = "123456789012" -> <<"1", "2", "3", "4", "5", "6", "7", "8", "9", "0", "1", "2">>
      [] str = "987654321098" -> <<"9", "8", "7", "6", "5", "4", "3", "2", "1", "0", "9", "8">>
      [] str = "12345678901" -> <<"1", "2", "3", "4", "5", "6", "7", "8", "9", "0", "1">>
      [] str = "EOB" -> <<"E", "O", "B">>

\* MEMBER_RE at position i: \bMEMBER NAME\s*:\s*(.+), IGNORECASE.
\* u is t.upper(); the result is 0, or the start of group 1.  When only
\* white space follows the colon, \s* gives back its last character to .+
MEMBER_RE_at(t, u, i) ==
    LET c == SkipSpace(t, i + 11)
        g == SkipSpace(t, c + 1)
    IN  IF /\ WordBoundary(t, i)
           /\ OccursAt(u, Chars("MEMBER NAME"), i)
           /\ c < Len(t)
           /\ t[c] = ":"
        THEN (IF g <= Len(t) THEN g ELSE Len(t))
        ELSE 0

\* MEMBER_RE.search(t): group(1) of the leftmost match, None without one
MEMBER_RE_search(t) ==
    LET u == Upper(t)
        at == {i \in 1..Len(t) : MEMBER_RE_at(t, u, i) # 0}
    IN  IF at = {} THEN None ELSE From(t, MEMBER_RE_at(t, u, Least(at)))

\* MEMBERID_RE at position i: \bMEMBER ID\s*:\s*([A-Za-z0-9]+), IGNORECASE
MEMBERID_RE_at(t, u, i) ==
    LET c == SkipSpace(t, i + 9)
        g == SkipSpace(t, c + 1)
    IN  /\ WordBoundary(t, i)
        /\ OccursAt(u, Chars("MEMBER ID"), i)
        /\ c <= Len(t)
        /\ t[c] = ":"
        /\ SkipAlnum(t, g) > g

\* MEMBERID_RE.search(t): group(1) of the leftmost match, None without one
MEMBERID_RE_search(t) ==
    LET u == Upper(t)
        at == {i \in 1..Len(t) : MEMBERID_RE_at(t, u, i)}
    IN  IF at = {} THEN None
        ELSE LET g == SkipSpace(t, SkipSpace(t, Least(at) + 9) + 1)
             IN  SubSeq(t, g, SkipAlnum(t, g) - 1)

\* ICN_LINE_RE.match(t): ^\s*\d{12,}\b; group(0), None without a match
ICN_LINE_RE_match(t) ==
    LET b == SkipSpace(t, 1)
        e == SkipDigits(t, b)
    IN  IF e - b >= 12 /\ WordBoundary(t, e) THEN SubSeq(t, 1, e - 1) ELSE None

\* the end (exclusive) of the (?:,\d{3})* part of AMOUNT_RE from j
RECURSIVE SkipThousands(_, _)
SkipThousands(t, j) ==
    IF /\ j + 3 <= Len(t)
       /\ t[j] = ","
       /\ \A k \in 1..3 : IsDigit(t[j + k])
    THEN SkipThousands(t, j + 4)
    ELSE j

\* AMOUNT_RE at position i: (\d{1,3}(?:,\d{3})*\.\d{2}); the end
\* (exclusive) of the match, 0 without one
AMOUNT_RE_at(t, i) ==
    LET r == SkipDigits(t, i)
        j == SkipThousands(t, r)
    IN  IF /\ r - i >= 1
           /\ r - i <= 3
           /\ j + 2 <= Len(t)
           /\ t[j] = "."
           /\ IsDigit(t[j + 1])
           /\ IsDigit(t[j + 2])
        THEN j + 3
        ELSE 0

\* AMOUNT_RE.findall(t): the non-overlapping matches, left to right
RECURSIVE AmountFrom(_, _)
AmountFrom(t, i) ==
    IF i > Len(t) THEN <<>>
    ELSE LET e == AMOUNT_RE_at(t, i)
         IN  IF e = 0 THEN AmountFrom(t, i + 1)
             ELSE <<SubSeq(t, i, e - 1)>> \o AmountFrom(t, e)

AMOUNT_RE_findall(t) == AmountFrom(t, 1)

\* the number written by a sequence of digits
RECURSIVE IntOf(_)
IntOf(ds) ==
    IF ds = <<>> THEN 0
    ELSE 10 * IntOf(SubSeq(ds, 1, Len(ds) - 1)) + DigitVal[ds[Len(ds)]]

\* _to_float(s) for a match of AMOUNT_RE: the commas are removed and the
\* literal, which has two decimals, is read
to_float(s) == Float(IntOf(SelectSeq(s, IsDigit)))

\* DATE6_RE at position i: \b\d{6}\b
DATE6_RE_at(t, i) ==
    /\ WordBoundary(t, i)
    /\ i + 5 <= Len(t)
    /\ \A k \in 0..5 : IsDigit(t[i + k])
    /\ WordBoundary(t, i + 6)

\* DATE6_RE.search(t): group(0) of the leftmost match, None without one
DATE6_RE_search(t) ==
    LET at == {i \in 1..Len(t) : DATE6_RE_at(t, i)}
    IN  IF at = {} THEN None ELSE SubSeq(t, Least(at), Least(at) + 5)

\* DATE6_RE.fullmatch(tok)
DATE6_RE_fullmatch(tok) == Len(tok) = 6 /\ DATE6_RE_at(tok, 1)

\* PD_ROW_RE at position i: \bPD\s+(D?\d{4})\b, IGNORECASE; the pair of
\* the start and the end (inclusive) of group 1, <<>> without a match
PD_ROW_RE_at(t, i) ==
    LET w == SkipSpace(t, i + 2)
        d == IF w <= Len(t) /\ ToUpper(t[w]) = "D" THEN w + 1 ELSE w
    IN  IF /\ WordBoundary(t, i)
           /\ i + 1 <= Len(t)
           /\ ToUpper(t[i]) = "P"
           /\ ToUpper(t[i + 1]) = "D"
           /\ w > i + 2
           /\ d + 3 <= Len(t)
           /\ \A k \in 0..3 : IsDigit(t[d + k])
           /\ WordBoundary(t, d + 4)
        THEN <<w, d + 3>>
        ELSE <<>>

\* PD_ROW_RE.search(t): group(1) of the leftmost match, None without one
PD_ROW_RE_search(t) ==
    LET at == {i \in 1..Len(t) : PD_ROW_RE_at(t, i) # <<>>}
    IN  IF at = {} THEN None
        ELSE LET g == PD_ROW_RE_at(t, Least(at)) IN SubSeq(t, g[1], g[2])

\* PD_ROW_RE.match(s) is not None
PD_ROW_RE_match(s) == PD_ROW_RE_at(s, 1) # <<>>

\* TOOTH_RE.fullmatch(tok): ^(?:[1-9]|[12][0-9]|3[0-2]|[A-Ta-t])$
TOOTH_RE_fullmatch(tok) ==
    \/ /\ Len(tok) = 1
       /\ \/ tok[1] \in Digits \ {"0"}
          \/ ToUpper(tok[1]) \in {UpperSeq[k] : k \in 1..20}
    \/ /\ Len(tok) = 2
       /\ \/ tok[1] \in {"1", "2"} /\ IsDigit(tok[2])
          \/ tok[1] = "3" /\ tok[2] \in {"0", "1", "2"}

\* SURFACE_RE.fullmatch(tok): ^[MDBOILFP]{1,4}$, IGNORECASE
SURFACE_RE_fullmatch(tok) ==
    /\ Len(tok) >= 1
    /\ Len(tok) <= 4
    /\ \A k \in 1..Len(tok) :
           ToUpper(tok[k]) \in {"M", "D", "B", "O", "I", "L", "F", "P"}

\* ------------------------------------------------------------------------
\* _parse_pd_line
\* ------------------------------------------------------------------------
\* code = code if code.upper().startswith('D') else f'D{code}'
NormCode(g) == IF ToUpper(g[1]) = "D" THEN g ELSE <<"D">> \o g

\* billed, allowed, paid = amts[:3]
FirstThree(amts) ==
    IF Len(amts) >= 3 THEN <<amts[1], amts[2], amts[3]>>
    ELSE <<None, None, None>>

\* billed, allowed, paid = amts[-3:] when len(amts) >= 3, else None each
LastThree(amts) ==
    LET n == Len(amts)
    IN  IF n >= 3 THEN <<amts[n - 2], amts[n - 1], amts[n]>>
        ELSE <<None, None, None>>

\* d: DATE6_RE.search(t) over the whole line
ServiceDate(t) == DATE6_RE_search(t)

\* tokens.index(code), and on ValueError the first token tok with
\* PD_ROW_RE.match(f'PD {tok}'); 0 stands for None
CodeIdx(tokens, code) ==
    LET eq == {i \in 1..Len(tokens) : tokens[i] = code}
        fb == {i \in 1..Len(tokens) :
                  PD_ROW_RE_match(Chars("PD") \o <<" ">> \o tokens[i])}
    IN  IF eq # {} THEN Least(eq)
        ELSE IF fb # {} THEN Least(fb)
        ELSE 0

\* the first token after code_idx that is six digits; 0 stands for None
DateIdx(tokens, code_idx) ==
    LET at == {i \in (code_idx + 1)..Len(tokens) : DATE6_RE_fullmatch(tokens[i])}
    IN  IF at = {} THEN 0 ELSE Least(at)

\* window = tokens[code_idx + 1:], the date not looked for
WindowToEnd(tokens, code_idx) == SubSeq(tokens, code_idx + 1, Len(tokens))

\* window = tokens[code_idx + 1: date_idx if date_idx is not None else len(tokens)]
Window(tokens, code_idx) ==
    LET date_idx == DateIdx(tokens, code_idx)
    IN  SubSeq(tokens, code_idx + 1,
               IF date_idx # 0 THEN date_idx - 1 ELSE Len(tokens))

\* the first token of the window that is a tooth, upper-cased
ToothOf(window) ==
    LET at == {j \in 1..Len(window) : TOOTH_RE_fullmatch(window[j])}
    IN  IF at = {} THEN None ELSE Upper(window[Least(at)])

\* start_j: past the first token whose upper() is the tooth, 0 without a
\* tooth (the number of window tokens skipped)
StartJ(window, tooth) ==
    LET at == {j \in 1..Len(window) : Upper(window[j]) = tooth}
    IN  IF tooth = None \/ at = {} THEN 0 ELSE Least(at)

\* the first token of window[start_j:] that is a surface, upper-cased
SurfaceOf(window, tooth) ==
    LET at == {j \in (StartJ(window, tooth) + 1)..Len(window) :
                  SURFACE_RE_fullmatch(window[j])}
    IN  IF at = {} THEN None ELSE Upper(window[Least(at)])

\* _parse_pd_line(t): None, or the tuple
\* (code, billed, allowed, paid, d, tooth, surface)
parse_pd_line(t) ==
    LET g == PD_ROW_RE_search(t)
    IN  IF g = None THEN None
        ELSE
        LET code == NormCode(g)
            found == AMOUNT_RE_findall(t)
            amts == LastThree([i \in 1..Len(found) |-> to_float(found[i])])
            tokens == Split(t)
            code_idx == CodeIdx(tokens, code)
            window == Window(tokens, code_idx)
            tooth == IF code_idx = 0 THEN None ELSE ToothOf(window)
        IN  <<code, amts[1], amts[2], amts[3], ServiceDate(t), tooth,
              IF code_idx = 0 THEN None ELSE SurfaceOf(window, tooth)>>

\* ------------------------------------------------------------------------
\* The documents the extractor is applied to
\* ------------------------------------------------------------------------
MaxLines == 7
MaxRows == 5
MaxShort == 3
MaxMarkers == 2
MaxWin == 3
MaxAmt == 4
MaxToothNum == 33

\* a line is the " ".join of the words given as strings
Line(ws) == Join([i \in 1..Len(ws) |-> Chars(ws[i])])

SeqsUpTo(S, n) == UNION {[1..k -> S] : k \in 0..n}

\* the concatenation of a sequence of sequences
RECURSIVE Flatten(_)
Flatten(ss) == IF ss = <<>> THEN <<>> ELSE ss[1] \o Flatten(Tail(ss))

\* the decimal numeral of a natural number, as a word
RECURSIVE Dec(_)
Dec(n) ==
    IF n < 10 THEN <<DigitSeq[n + 1]>>
    ELSE Dec(n \div 10) \o <<DigitSeq[(n % 10) + 1]>>

HeaderJohn == Line(<<"MEMBER", "NAME:", "JOHN", "SMITH", "MEMBER", "ID:", "AB1234">>)
PdFull == Line(<<"PD", "D2160", "5", "O", "061524", "110.00", "92.00", "92.00">>)
IcnWithText == Line(<<"123456789012", "EOB">>)

HeaderMary ==
    Line(<<"MEMBER", "NAME:", "MARY", "DIAG:", "K02", "MEMBER", "ID:", "CD5678",
           "MEMBER", "ID:", "EF9012">>)

\* documents of up to MaxLines lines: a reference number and a header in
\* every order
LayoutPool == {IcnWithText, HeaderJohn}

IdLine == Line(<<"MEMBER", "ID:", "ZZ9999">>)

\* documents of up to MaxRows lines: two headers, a MEMBER ID line and a
\* detail line in every order
RowPool == {HeaderJohn, HeaderMary, IdLine, PdFull}

HeaderNoName == Line(<<"MEMBER", "NAME:", "MEMBER", "ID:">>)
PdNoCode == Line(<<"PD", "XYZ", "110.00">>)

\* documents of up to MaxShort lines: a header without a name, a PD line
\* without a code and a reference number in every order
EdgePool == {HeaderNoName, PdNoCode, IcnWithText}

\* documents of up to MaxShort lines over a wider choice of lines
ShortPool ==
    {HeaderJohn,
     HeaderMary,
     HeaderNoName,
     Line(<<"member", "name", ":", "ann", "lee">>),
     IdLine,
     PdFull,
     Line(<<"PD", "2160", "061524", "110.00", "92.00">>),
     IcnWithText,
     Line(<<"987654321098">>),
     Line(<<"12345678901">>)}

\* header lines: a name, then up to MaxMarkers fields in every order
MarkerFields ==
    {<<"MEMBER", "ID:", "AB1234">>, <<"OTH", "INS", "CD:", "N">>,
     <<"PA:", "7">>, <<"DIAG:", "K02">>}

HeaderLines ==
    {Line(<<"MEMBER", "NAME:">> \o nm \o Flatten(fs)) :
        nm \in {<<>>, <<"JOHN", "SMITH">>}, fs \in SeqsUpTo(MarkerFields, MaxMarkers)}

\* detail lines: what stands before PD, the code, up to MaxWin words after
\* the code, then three amounts
WinWords == {"5", "b", "O", "mo", "061524"}

BeforeAndCode ==
    {<<<<>>, "D2160">>, <<<<"123456">>, "D2160">>, <<<<"D2160">>, "D2160">>,
     <<<<>>, "2160">>, <<<<"2160">>, "2160">>}

WindowLines ==
    {Line(bc[1] \o <<"PD", bc[2]>> \o win \o <<"110.00", "92.00", "92.00">>) :
        bc \in BeforeAndCode, win \in SeqsUpTo(WinWords, MaxWin)}

\* detail lines with up to MaxAmt amounts
AmtWords == {"110.00", "92.00", "1,234.56"}

AmountLines ==
    {Line(<<"PD", "D2160", "061524">> \o amts) : amts \in SeqsUpTo(AmtWords, MaxAmt)}

\* detail lines with one word, a numeral up to MaxToothNum or a letter,
\* between the code and a surface
ToothLines ==
    {Join(<<Chars("PD"), Chars("D2160"), w, Chars("O"), Chars("061524"),
            Chars("110.00"), Chars("92.00"), Chars("92.00")>>) :
        w \in {Dec(n) : n \in 0..MaxToothNum} \cup {<<c>> : c \in Uppers \cup Lowers}}

DetailLines ==
    WindowLines \cup AmountLines \cup ToothLines
    \cup {Line(<<"PD", "D0120", "14", "061524", "10.00", "20.00", "30.00", "40.00">>),
          PdNoCode}

\* every line of every document
Lines == LayoutPool \cup RowPool \cup ShortPool \cup HeaderLines \cup DetailLines

Docs ==
    SeqsUpTo(LayoutPool, MaxLines)
    \cup SeqsUpTo(RowPool, MaxRows)
    \cup SeqsUpTo(ShortPool, MaxShort)
    \cup SeqsUpTo(EdgePool, MaxShort)
    \cup {<<h>> : h \in HeaderLines}
    \cup {<<HeaderJohn, l>> : l \in DetailLines}

\* ------------------------------------------------------------------------
\* extract_all_clients_from_lines
\* ------------------------------------------------------------------------
VARIABLES
    texts,      \* texts: the text of every line of post_lines
    scan,       \* what the regular expressions find on each line of texts
    starts,     \* starts: the indices of the lines MEMBER_RE matches
    si,         \* the position of the for loop in starts
    out_rows,   \* out_rows: the rows appended so far
    row_src,    \* history: for each row, its block and its source line
    pc          \* "idle", "call", "loop", "done" or "raised"

\* ------------------------------------------------------------------------
\* The state of the other functions of the pipeline.  Each function is
\* checked under its own specification; the specifications of the other
\* functions leave it idle.
\* ------------------------------------------------------------------------
VARIABLES
    words,      \* cluster_tilted_lines: words, records [cx, cy, h]
    remaining,  \* remaining: the indices not yet put on a line
    lines,      \* lines: the lines built so far
    tpc         \* "idle", "call", "loop" or "done"

tilted_vars == <<words, remaining, lines, tpc>>

TiltedIdle ==
    /\ words = <<>>
    /\ remaining = {}
    /\ lines = <<>>
    /\ tpc = "idle"

VARIABLES
    rotated_words,  \* group_horizontal_lines: records [cx_rot, cy_rot, h]
    idxs,           \* idxs: the indices sorted by (cy_rot, cx_rot)
    gi,             \* the position of the for loop in idxs
    cur,            \* cur: the band being filled
    post_lines,     \* lines: the bands flushed so far
    gpc             \* "idle", "call", "loop" or "done"

horiz_vars == <<rotated_words, idxs, gi, cur, post_lines, gpc>>

HorizIdle ==
    /\ rotated_words = <<>>
    /\ idxs = <<>>
    /\ gi = 0
    /\ cur = <<>>
    /\ post_lines = <<>>
    /\ gpc = "idle"

VARIABLES
    thetas,      \* estimate_skew_hough: the theta of each line of HoughLines
    angs,        \* angs: the folded angle of each line
    keep,        \* keep: the angles within 10 degrees of the first median
    a_h,         \* smart_deskew_with_lines: the edge-based estimate
    n_h,         \* and its sample count
    a_p,         \* the word-pair estimate
    n_p,         \* and its sample count
    clamp_deg,   \* clamp_deg
    img,         \* what the previews of img show: [skew, visible]
    candidates,  \* candidates
    cand,        \* cand: the candidates clamped and deduplicated
    grid,        \* grid
    scored,      \* scored: <<angle, cost>> of every grid angle
    best_angle,  \* best_angle
    dpc          \* "idle", "hough", "pairs", "fuse", "grid", "score",
                 \* "choose" or "done"

deskew_vars == <<thetas, angs, keep, a_h, n_h, a_p, n_p, clamp_deg, img,
                 candidates, cand, grid, scored, best_angle, dpc>>

DeskewIdle ==
    /\ thetas = <<>>
    /\ angs = <<>>
    /\ keep = <<>>
    /\ a_h = 0
    /\ n_h = 0
    /\ a_p = 0
    /\ n_p = 0
    /\ clamp_deg = 0
    /\ img = [skew |-> 0, visible |-> 0]
    /\ candidates = <<>>
    /\ cand = <<>>
    /\ grid = <<>>
    /\ scored = <<>>
    /\ best_angle = 0
    /\ dpc = "idle"

VARIABLES
    skew_words,    \* estimate_skew_pairs: words, records [cx, cy, w, h]
    words_sorted,  \* words_sorted
    best_j,        \* best_j of every word of words_sorted, 0 for None
    pairs,         \* pairs: records [v, w], angle and weight
    trimmed,       \* trimmed
    pairs_out,     \* the pair returned: <<angle, sample count>>
    ppc            \* "idle", "call", "pairs" or "done"

pairs_vars == <<skew_words, words_sorted, best_j, pairs, trimmed, pairs_out, ppc>>

PairsIdle ==
    /\ skew_words = <<>>
    /\ words_sorted = <<>>
    /\ best_j = <<>>
    /\ pairs = <<>>
    /\ trimmed = <<>>
    /\ pairs_out = <<0, 0>>
    /\ ppc = "idle"

VARIABLES
    rt_words,   \* transform_words: words, records [cx, cy, q]
    shape_hw,   \* shape_hw: <<h, w>>
    angle_deg,  \* angle_deg by its cosine c/d and sine s/d: [c, s, d]
    rot_there,  \* the words returned for angle_deg
    rot_back,   \* the words returned for -angle_deg
    rpc         \* "idle", "call", "there", "back" or "back_same"

rot_vars == <<rt_words, shape_hw, angle_deg, rot_there, rot_back, rpc>>

RotIdle ==
    /\ rt_words = <<>>
    /\ shape_hw = <<0, 0>>
    /\ angle_deg = [c |-> 1, s |-> 0, d |-> 1]
    /\ rot_there = <<>>
    /\ rot_back = <<>>
    /\ rpc = "idle"

VARIABLES
    service,       \* "ocr" (PaymentOCRService), "selenium" or "none"
    semaphore,     \* the value of the semaphore
    active_jobs,   \* active_jobs
    waiting_jobs,  \* waiting_jobs
    req,           \* where every request handler stands
    running,       \* the handler the event loop is running, 0 when it is idle
    last_status    \* the status of the last /status response, "" before one

sem_vars == <<service, semaphore, active_jobs, waiting_jobs, req, running, last_status>>

SemIdle ==
    /\ service = "none"
    /\ semaphore = 0
    /\ active_jobs = 0
    /\ waiting_jobs = 0
    /\ req = <<>>
    /\ running = 0
    /\ last_status = ""

VARIABLES
    sessions,   \* sessions: the ids in the registry
    entry,      \* the dict made for every id, in the registry or not
    run,        \* where start_ddma_run stands for every id
    result,     \* the status start_ddma_run returned, "" before it returns
    otp_reply   \* the status of the last reply of submit_otp, "" before it

otp_vars == <<sessions, entry, run, result, otp_reply>>

OtpIdle ==
    /\ sessions = {}
    /\ entry = <<>>
    /\ run = <<>>
    /\ result = <<>>
    /\ otp_reply = ""

extract_vars == <<texts, scan, starts, si, out_rows, row_src, pc>>

ExtractIdle ==
    /\ texts = <<>>
    /\ scan = <<>>
    /\ starts = <<>>
    /\ si = 0
    /\ out_rows = <<>>
    /\ row_src = <<>>
    /\ pc = "idle"

vars == <<extract_vars, tilted_vars, horiz_vars, deskew_vars,
         pairs_vars, rot_vars, sem_vars, otp_vars>>

\* what each function leaves alone, and where it leaves the others
not_extract ==
    <<tilted_vars, horiz_vars, deskew_vars,
      pairs_vars, rot_vars, sem_vars, otp_vars>>
not_tilted ==
    <<extract_vars, horiz_vars, deskew_vars,
      pairs_vars, rot_vars, sem_vars, otp_vars>>
not_horiz ==
    <<extract_vars, tilted_vars, deskew_vars,
      pairs_vars, rot_vars, sem_vars, otp_vars>>
not_deskew ==
    <<extract_vars, tilted_vars, horiz_vars,
      pairs_vars, rot_vars, sem_vars, otp_vars>>
not_pairs ==
    <<extract_vars, tilted_vars, horiz_vars,
      deskew_vars, rot_vars, sem_vars, otp_vars>>
not_rot ==
    <<extract_vars, tilted_vars, horiz_vars,
      deskew_vars, pairs_vars, sem_vars, otp_vars>>
not_sem ==
    <<extract_vars, tilted_vars, horiz_vars,
      deskew_vars, pairs_vars, rot_vars, otp_vars>>
not_otp ==
    <<extract_vars, tilted_vars, horiz_vars,
      deskew_vars, pairs_vars, rot_vars, sem_vars>>

OnlyExtract ==
    /\ TiltedIdle /\ HorizIdle /\ DeskewIdle
    /\ PairsIdle /\ RotIdle /\ SemIdle /\ OtpIdle
OnlyTilted ==
    /\ ExtractIdle /\ HorizIdle /\ DeskewIdle
    /\ PairsIdle /\ RotIdle /\ SemIdle /\ OtpIdle
OnlyHoriz ==
    /\ ExtractIdle /\ TiltedIdle /\ DeskewIdle
    /\ PairsIdle /\ RotIdle /\ SemIdle /\ OtpIdle
OnlyDeskew ==
    /\ ExtractIdle /\ TiltedIdle /\ HorizIdle
    /\ PairsIdle /\ RotIdle /\ SemIdle /\ OtpIdle
OnlyPairs ==
    /\ ExtractIdle /\ TiltedIdle /\ HorizIdle
    /\ DeskewIdle /\ RotIdle /\ SemIdle /\ OtpIdle
OnlyRot ==
    /\ ExtractIdle /\ TiltedIdle /\ HorizIdle
    /\ DeskewIdle /\ PairsIdle /\ SemIdle /\ OtpIdle
OnlySem ==
    /\ ExtractIdle /\ TiltedIdle /\ HorizIdle
    /\ DeskewIdle /\ PairsIdle /\ RotIdle /\ OtpIdle
OnlyOtp ==
    /\ ExtractIdle /\ TiltedIdle /\ HorizIdle
    /\ DeskewIdle /\ PairsIdle /\ RotIdle /\ SemIdle

cut_points == <<Chars("MEMBER ID"), Chars("OTH INS CD"), Chars("PA:"), Chars("DIAG:")>>

\* for cp in cut_points: idx = mname.upper().find(cp); cut when idx != -1
RECURSIVE CutName(_, _)
CutName(mname, k) ==
    IF k > Len(cut_points) THEN mname
    ELSE LET idx == Find(Upper(mname), cut_points[k])
         IN  CutName(IF idx # -1 THEN Strip(SubSeq(mname, 1, idx)) ELSE mname,
                     k + 1)

\* a cut at the first marker of cut_points found, with a break
RECURSIVE CutFirstListed(_, _)
CutFirstListed(mname, k) ==
    IF k > Len(cut_points) THEN mname
    ELSE LET idx == Find(Upper(mname), cut_points[k])
         IN  IF idx # -1 THEN Strip(SubSeq(mname, 1, idx))
             ELSE CutFirstListed(mname, k + 1)

MemberNameFirstListed(name_line) ==
    CutFirstListed(Strip(MEMBER_RE_search(name_line)), 1)

\* mname of the header line name_line
MemberName(name_line) == CutName(Strip(MEMBER_RE_search(name_line)), 1)

\* " PD " in f" {t} "
HasPdToken(t) == Contains(<<" ">> \o t \o <<" ">>, Chars(" PD "))

\* a PD loop that also continues on a line with fewer than three amounts
ParsedPdThreeAmounts(t) ==
    IF HasPdToken(t) /\ Len(AMOUNT_RE_findall(t)) >= 3
    THEN parse_pd_line(t) ELSE None

\* what the PD loop parses from line t: None when it continues
ParsedPd(t) == IF HasPdToken(t) THEN parse_pd_line(t) ELSE None

\* Each regular expression is applied to one line at a time, so what the
\* extractor reads of a line is a function of that line: whether it is a
\* header and with which mname, its MEMBER ID, its ICN, its parsed PD tuple.
Scan(t) ==
    [header |-> MEMBER_RE_search(t) # None,
     mname |-> IF MEMBER_RE_search(t) # None THEN MemberName(t) ELSE None,
     mid |-> MEMBERID_RE_search(t),
     icn |-> ICN_LINE_RE_match(t),
     parsed |-> ParsedPd(t)]

Scanned == [t \in Lines |-> Scan(t)]

\* the lines of a document, scanned
ScanAll(tx) == [k \in 1..Len(tx) |-> Scanned[tx[k]]]

\* starts = [i for i,t in enumerate(texts) if MEMBER_RE.search(t)]
RECURSIVE HeadersFrom(_, _)
HeadersFrom(sc, k) ==
    IF k > Len(sc) THEN <<>>
    ELSE (IF sc[k].header THEN <<k>> ELSE <<>>) \o HeadersFrom(sc, k + 1)

\* starts that falls back on the first line when no line matches
HeadersOrFirstLine(sc) ==
    IF HeadersFrom(sc, 1) = <<>> /\ Len(sc) > 0 THEN <<1>> ELSE HeadersFrom(sc, 1)

Headers(sc) == HeadersFrom(sc, 1)

\* end = len(texts) for every block
BlockEndOfDocument(st, i, n) == n

\* end = starts[si+1] if si+1 < len(starts) else len(texts); the block is
\* texts[start:end], here the lines start..BlockEnd
BlockEnd(st, i, n) == IF i + 1 <= Len(st) THEN st[i + 1] - 1 ELSE n

\* mid: a loop without the break, the last MEMBER ID match of the lines
MemberIdLast(sc, start, end) ==
    LET at == {k \in start..end : sc[k].mid # None}
    IN  IF at = {} THEN <<>>
        ELSE Strip(sc[CHOOSE k \in at : \A j \in at : j <= k].mid)

\* mid: the first MEMBER ID match of the lines start..end, "" without one
MemberId(sc, start, end) ==
    LET at == {k \in start..end : sc[k].mid # None}
    IN  IF at = {} THEN <<>> ELSE Strip(sc[Least(at)].mid)

\* an ICN loop that visits six lines: range(start-1, max(-1, start-7), -1)
IcnRangeSix(start) == {k \in (start - 6)..(start - 1) : k >= 1}

\* the lines the ICN loop visits: range(start-1, max(-1, start-6), -1)
IcnRange(start) == {k \in (start - 5)..(start - 1) : k >= 1}

\* an ICN loop that visits only the line directly above the header
IcnOfDirectlyAbove(sc, start) ==
    IF start > 1 /\ sc[start - 1].icn # None THEN sc[start - 1].icn ELSE <<>>

\* icn: group(0) of the nearest line above the header ICN_LINE_RE matches
IcnOf(sc, start) ==
    LET at == {k \in IcnRange(start) : sc[k].icn # None}
    IN  IF at = {} THEN <<>>
        ELSE sc[CHOOSE k \in at : \A j \in at : k >= j].icn

\* x if x else "" for an Optional[str], x if x is not None else "" for an
\* Optional[float]
OrEmpty(x) == IF x = None THEN <<>> ELSE x

\* the row appended for a parsed PD line
PdRow(mname, mid, icn, parsed) ==
    [name |-> IF mname # <<>> THEN Title(mname) ELSE <<>>,
     pid |-> mid,
     icn |-> icn,
     code |-> parsed[1],
     tooth |-> OrEmpty(parsed[6]),
     date |-> OrEmpty(parsed[5]),
     billed |-> OrEmpty(parsed[2]),
     allowed |-> OrEmpty(parsed[3]),
     paid |-> OrEmpty(parsed[4]),
     success |-> TRUE]

\* a placeholder row with 'Extraction Success': bool(mname and mid)
PlaceholderRowBoth(mname, mid, icn) ==
    [name |-> IF mname # <<>> THEN Title(mname) ELSE <<>>,
     pid |-> mid,
     icn |-> icn,
     code |-> <<>>,
     tooth |-> <<>>,
     date |-> <<>>,
     billed |-> <<>>,
     allowed |-> <<>>,
     paid |-> <<>>,
     success |-> (mname # <<>> /\ mid # <<>>)]

\* the row appended when not had_pd
PlaceholderRow(mname, mid, icn) ==
    [name |-> IF mname # <<>> THEN Title(mname) ELSE <<>>,
     pid |-> mid,
     icn |-> icn,
     code |-> <<>>,
     tooth |-> <<>>,
     date |-> <<>>,
     billed |-> <<>>,
     allowed |-> <<>>,
     paid |-> <<>>,
     success |-> (mname # <<>> \/ mid # <<>>)]

\* a PD loop without its two continue statements: every line of start..end
PdLinesEvery(sc, k, end) == [j \in 1..(end - k + 1) |-> k + j - 1]

\* the lines of start..end the PD loop appends a row for, in order
RECURSIVE PdLines(_, _, _)
PdLines(sc, k, end) ==
    IF k > end THEN <<>>
    ELSE (IF sc[k].parsed # None THEN <<k>> ELSE <<>>) \o PdLines(sc, k + 1, end)

\* a loop body that appends the row of "if not had_pd" without testing
\* had_pd
BlockRowsAlwaysPlaceholder(sc, start, end) ==
    LET mname == sc[start].mname
        mid == MemberId(sc, start, end)
        icn == IcnOf(sc, start)
        pd == PdLines(sc, start, end)
    IN  [j \in 1..Len(pd) |->
            [row |-> PdRow(mname, mid, icn, sc[pd[j]].parsed), line |-> pd[j]]]
        \o <<[row |-> PlaceholderRow(mname, mid, icn), line |-> 0]>>

\* the rows one iteration of the for loop appends, each with the line it
\* was parsed from (0 for the row appended when not had_pd)
BlockRows(sc, start, end) ==
    LET mname == sc[start].mname
        mid == MemberId(sc, start, end)
        icn == IcnOf(sc, start)
        pd == PdLines(sc, start, end)
    IN  IF pd = <<>>
        THEN <<[row |-> PlaceholderRow(mname, mid, icn), line |-> 0]>>
        ELSE [j \in 1..Len(pd) |->
                 [row |-> PdRow(mname, mid, icn, sc[pd[j]].parsed),
                  line |-> pd[j]]]

\* the loop body raises: MEMBER_RE.search(name_line) is None where
\* .group(1) is taken of it, or the tuple unpacked in the PD loop is None
Raises(sc, start, end) ==
    \/ sc[start].mname = None
    \/ \E j \in 1..Len(PdLines(sc, start, end)) :
          sc[PdLines(sc, start, end)[j]].parsed = None

Init ==
    /\ texts \in Docs
    /\ scan = ScanAll(texts)
    /\ starts = <<>>
    /\ si = 0
    /\ out_rows = <<>>
    /\ row_src = <<>>
    /\ pc = "call"
    /\ OnlyExtract

\* if not starts: return []
ReturnEmpty ==
    /\ pc = "call"
    /\ Headers(scan) = <<>>
    /\ starts' = <<>>
    /\ pc' = "done"
    /\ UNCHANGED <<texts, scan, si, out_rows, row_src>>
    /\ UNCHANGED not_extract

\* the for loop over starts is entered
EnterLoop ==
    /\ pc = "call"
    /\ starts' = Headers(scan)
    /\ starts' # <<>>
    /\ si' = 1
    /\ pc' = "loop"
    /\ UNCHANGED <<texts, scan, out_rows, row_src>>
    /\ UNCHANGED not_extract

\* one iteration of the for loop: the rows of block si are appended, or
\* the exception of the loop body leaves the function
ExtractBlock ==
    /\ pc = "loop"
    /\ si <= Len(starts)
    /\ LET start == starts[si]
           end == BlockEnd(starts, si, Len(texts))
           new == BlockRows(scan, start, end)
       IN  IF Raises(scan, start, end)
           THEN /\ pc' = "raised"
                /\ UNCHANGED <<si, out_rows, row_src>>
           ELSE /\ out_rows' = out_rows \o [j \in 1..Len(new) |-> new[j].row]
                /\ row_src' = row_src \o [j \in 1..Len(new) |->
                                             [block |-> si, line |-> new[j].line]]
                /\ si' = si + 1
                /\ pc' = pc
    /\ UNCHANGED <<texts, scan, starts>>
    /\ UNCHANGED not_extract

\* return out_rows
Return ==
    /\ pc = "loop"
    /\ si > Len(starts)
    /\ pc' = "done"
    /\ UNCHANGED <<texts, scan, starts, si, out_rows, row_src>>
    /\ UNCHANGED not_extract

Next == ReturnEmpty \/ EnterLoop \/ ExtractBlock \/ Return

ExtractSpec == Init /\ [][Next]_vars

\* the function is one thread of control: a step that can be taken is taken
ExtractLive == Init /\ [][Next]_vars /\ WF_vars(Next)

\* ------------------------------------------------------------------------
\* The vocabulary of the claims.  The documents are built from words, so a
\* claim about tokens is stated on the words of a line, read without the
\* regular expressions of the extractor.
\* ------------------------------------------------------------------------
WordsOn == [t \in Lines |-> Split(t)]

\* the words that are decimal money tokens, and the amount each writes,
\* in cents
MoneyCents ==
    {<<Chars("110.00"), 11000>>, <<Chars("92.00"), 9200>>,
     <<Chars("1,234.56"), 123456>>, <<Chars("10.00"), 1000>>,
     <<Chars("20.00"), 2000>>, <<Chars("30.00"), 3000>>,
     <<Chars("40.00"), 4000>>}

MoneyWords == {p[1] : p \in MoneyCents}

CentsOf(w) == (CHOOSE p \in MoneyCents : p[1] = w)[2]

IsMoneyWord(w) == w \in MoneyWords

\* the money tokens of a line, left to right
MoneyOn == [t \in Lines |-> SelectSeq(WordsOn[t], IsMoneyWord)]

\* the words that are a procedure code, and the code each stands for
CodeWords == {Chars("D2160"), Chars("2160"), Chars("D0120")}

CodeOf(w) == IF w[1] = "D" THEN w ELSE <<"D">> \o w

\* the position of the procedure code of a detail line: the word after
\* the first PD that a code follows; 0 when no code follows a PD
PdWord == Chars("PD")

CodePosOn ==
    [t \in Lines |->
        LET ws == WordsOn[t]
            at == {i \in 2..Len(ws) : ws[i - 1] = PdWord /\ ws[i] \in CodeWords}
        IN  IF at = {} THEN 0 ELSE Least(at)]

\* a detail line: a line with the word PD
DetailOn == [t \in Lines |-> \E i \in 1..Len(WordsOn[t]) : WordsOn[t][i] = PdWord]

IsDetailLine(t) == DetailOn[t]

\* a six-digit word
IsSixDigits(w) == Len(w) = 6 /\ \A i \in 1..6 : w[i] \in Digits

\* the blocks: block b runs from header b up to the line before header
\* b + 1, or to the end of the document
BlockOf(k) == Cardinality({h \in 1..k : scan[h].header})

\* the rows appended for block b, as positions in out_rows
RowsOf(b) == {r \in 1..Len(out_rows) : row_src[r].block = b}

\* the blocks the for loop has gone through
NDone == IF si = 0 THEN 0 ELSE si - 1

DoneBlocks == 1..NDone

\* the detail lines of block b that parse: a code follows PD
ParsedIn(b) ==
    {k \in 1..Len(texts) : CodePosOn[texts[k]] # 0 /\ BlockOf(k) = b}

Max(a, b) == IF a >= b THEN a ELSE b

RECURSIVE SumRows(_)
SumRows(b) == IF b <= 0 THEN 0 ELSE SumRows(b - 1) + Max(1, Cardinality(ParsedIn(b)))

\* ------------------------------------------------------------------------
\* C1: for every block the extractor has gone through it has appended, in
\* line order, exactly one row per detail line of the block that parses,
\* and exactly one placeholder row (no code) when none parses; the rows
\* stand block by block, no block has zero rows, and the number of rows
\* is the sum over the blocks of max(1, parsed detail lines).
\* ------------------------------------------------------------------------
C1_RowsPerBlock ==
    /\ \A b \in DoneBlocks :
          LET rs == RowsOf(b)
              P == ParsedIn(b)
          IN  /\ rs # {}
              /\ Cardinality(rs) = Max(1, Cardinality(P))
              /\ P = {} => \A r \in rs : out_rows[r].code = <<>>
              /\ P # {} =>
                    /\ {row_src[r].line : r \in rs} = P
                    /\ \A r \in rs :
                          out_rows[r].code =
                              CodeOf(WordsOn[texts[row_src[r].line]]
                                         [CodePosOn[texts[row_src[r].line]]])
                    /\ \A r1, r2 \in rs :
                          r1 < r2 => row_src[r1].line < row_src[r2].line
    /\ \A r1, r2 \in 1..Len(out_rows) :
          r1 < r2 => row_src[r1].block <= row_src[r2].block
    /\ \A r \in 1..Len(out_rows) : row_src[r].block \in DoneBlocks
    /\ Len(out_rows) = SumRows(NDone)

\* the extractor has returned from a document in which one block has two
\* rows and another block has the placeholder row
C1_Witness ==
    /\ pc = "done"
    /\ \E b1, b2 \in DoneBlocks :
          /\ Cardinality(RowsOf(b1)) >= 2
          /\ ParsedIn(b2) = {}
          /\ Cardinality(RowsOf(b2)) = 1

\* the amounts of row r, and the line it was parsed from
RowLine(r) == texts[row_src[r].line]

DetailRows == {r \in 1..Len(out_rows) : row_src[r].line # 0}

NoAmounts(row) == row.billed = <<>> /\ row.allowed = <<>> /\ row.paid = <<>>

\* ------------------------------------------------------------------------
\* C2, as the specification states it: a detail line with fewer than three
\* money tokens produces no row of its own, and a block whose detail lines
\* all have fewer than three money tokens yields only the placeholder row,
\* with empty code, date and amounts.
\* ------------------------------------------------------------------------
C2_ShortLinesDropped ==
    /\ \A r \in DetailRows : Len(MoneyOn[RowLine(r)]) >= 3
    /\ \A b \in DoneBlocks :
          (\A k \in 1..Len(texts) :
              Len(MoneyOn[texts[k]]) >= 3 => BlockOf(k) # b) =>
              \A r \in RowsOf(b) :
                  /\ out_rows[r].code = <<>>
                  /\ out_rows[r].date = <<>>
                  /\ NoAmounts(out_rows[r])

\* ------------------------------------------------------------------------
\* C2, amended: a detail line with fewer than three money tokens is dropped
\* only when no procedure code follows its PD; when a code follows, the
\* line has exactly one row of its own, with that code, the three amounts
\* empty and the success flag true.
\* ------------------------------------------------------------------------
C2_ShortLinesKeepTheirRow ==
    \A k \in 1..Len(texts) :
        (/\ IsDetailLine(texts[k])
         /\ Len(MoneyOn[texts[k]]) < 3
         /\ BlockOf(k) \in DoneBlocks) =>
                LET rs == {r \in RowsOf(BlockOf(k)) : row_src[r].line = k}
                IN  IF CodePosOn[texts[k]] = 0
                    THEN rs = {}
                    ELSE /\ Cardinality(rs) = 1
                         /\ \A r \in rs :
                               /\ out_rows[r].code =
                                     CodeOf(WordsOn[texts[k]][CodePosOn[texts[k]]])
                               /\ NoAmounts(out_rows[r])
                               /\ out_rows[r].success

\* a returned row parsed from a detail line with fewer than three money
\* tokens: it has a code and no amounts
C2_Witness ==
    /\ pc = "done"
    /\ \E r \in DetailRows :
          /\ Len(MoneyOn[RowLine(r)]) < 3
          /\ out_rows[r].code # <<>>
          /\ NoAmounts(out_rows[r])

C4_DateIsAfterCode ==
    \A r \in DetailRows :
        LET ws == WordsOn[RowLine(r)]
            c == CodePosOn[RowLine(r)]
            after == {i \in (c + 1)..Len(ws) : IsSixDigits(ws[i])}
        IN  out_rows[r].date = IF after = {} THEN <<>> ELSE ws[Least(after)]

\* the line begins with a run of twelve or more digits that ends the line
\* or is followed by a character that is not a letter, digit or underscore;
\* IcnNumberOn is that run, <<>> for any other line
LeadDigits(t) ==
    SubSeq(t, 1, Cardinality({i \in 1..Len(t) : \A j \in 1..i : t[j] \in Digits}))

IcnNumberOn ==
    [t \in Lines |->
        LET d == LeadDigits(t)
        IN  IF Len(d) >= 12 /\ (Len(d) = Len(t) \/ ~IsWord(t[Len(d) + 1]))
            THEN d ELSE <<>>]

\* the lines with such a number among the five lines directly above line h
IcnAbove(h) ==
    {k \in 1..Len(texts) : h - 5 <= k /\ k < h /\ IcnNumberOn[texts[k]] # <<>>}

\* ------------------------------------------------------------------------
\* C5, as the specification states it: the ICN of a block is the text of
\* the nearest line, among the five directly above the header, that begins
\* with twelve or more digits, and empty when there is none.
\* ------------------------------------------------------------------------
C5_IcnIsLineText ==
    \A b \in DoneBlocks :
        \A r \in RowsOf(b) :
            LET W == IcnAbove(starts[b])
            IN  out_rows[r].icn =
                    IF W = {} THEN <<>>
                    ELSE texts[CHOOSE k \in W : \A j \in W : j <= k]

\* ------------------------------------------------------------------------
\* C5, amended: the ICN of a block is the leading run of digits of the
\* nearest line, among the five directly above the header, that begins
\* with twelve or more digits, and empty when there is none; a line at or
\* below the header, or six or more lines above it, is never used.
\* ------------------------------------------------------------------------
C5_IcnIsLeadingDigits ==
    \A b \in DoneBlocks :
        \A r \in RowsOf(b) :
            LET W == IcnAbove(starts[b])
            IN  out_rows[r].icn =
                    IF W = {} THEN <<>>
                    ELSE IcnNumberOn[texts[CHOOSE k \in W : \A j \in W : j <= k]]

\* a returned document in which one block takes its ICN from a line above
\* it that has more text than the number, and another block, with a
\* numbered line six lines above its header and none nearer, has no ICN
C5_Witness ==
    /\ pc = "done"
    /\ \E b1, b2 \in DoneBlocks :
          /\ \E r \in RowsOf(b1) :
                /\ out_rows[r].icn # <<>>
                /\ \E k \in IcnAbove(starts[b1]) : out_rows[r].icn # texts[k]
          /\ starts[b2] > 6
          /\ IcnNumberOn[texts[starts[b2] - 6]] # <<>>
          /\ IcnAbove(starts[b2]) = {}
          /\ \A r \in RowsOf(b2) : out_rows[r].icn = <<>>

\* the nearest header at or above line k, 0 without one
HeaderAbove(k) ==
    LET hs == {h \in 1..k : scan[h].header}
    IN  IF hs = {} THEN 0 ELSE CHOOSE h \in hs : \A j \in hs : j <= h

\* ------------------------------------------------------------------------
\* C6: starts lists the header lines in order, so that block i runs from
\* header i up to the line before header i + 1 or the end of the document;
\* a row parsed from line l belongs to the block of the nearest header at
\* or above l and carries that header's name; a line before the first
\* header has no row, and a line that parses in a block gone through has
\* exactly one.
\* ------------------------------------------------------------------------
C6_RowsBelongToNearestHeader ==
    /\ pc # "call" =>
          /\ Len(starts) = BlockOf(Len(texts))
          /\ \A i \in 1..Len(starts) :
                scan[starts[i]].header /\ BlockOf(starts[i]) = i
    /\ \A r \in DetailRows :
          LET l == row_src[r].line
              h == HeaderAbove(l)
          IN  /\ h # 0
              /\ starts[row_src[r].block] = h
              /\ out_rows[r].name =
                    IF scan[h].mname = <<>> THEN <<>> ELSE Title(scan[h].mname)
    /\ \A l \in 1..Len(texts) :
          (CodePosOn[texts[l]] # 0 /\ BlockOf(l) \in DoneBlocks) =>
              Cardinality({r \in DetailRows : row_src[r].line = l}) = 1

\* a returned document with a line that parses before the first header,
\* and rows of two blocks whose headers name different patients
C6_Witness ==
    /\ pc = "done"
    /\ \E l \in 1..Len(texts) : CodePosOn[texts[l]] # 0 /\ BlockOf(l) = 0
    /\ \E r1, r2 \in DetailRows :
          /\ row_src[r1].block # row_src[r2].block
          /\ out_rows[r1].name # out_rows[r2].name

\* ------------------------------------------------------------------------
\* C7: a block in which no detail line parses has a single row, with code,
\* tooth, date and amounts empty and the success flag true exactly when
\* the name or the patient identifier of the row is not empty.
\* ------------------------------------------------------------------------
C7_PlaceholderRow ==
    \A b \in DoneBlocks :
        ParsedIn(b) = {} =>
            /\ Cardinality(RowsOf(b)) = 1
            /\ \A r \in RowsOf(b) :
                  /\ out_rows[r].code = <<>>
                  /\ out_rows[r].tooth = <<>>
                  /\ out_rows[r].date = <<>>
                  /\ NoAmounts(out_rows[r])
                  /\ out_rows[r].success <=>
                        (out_rows[r].name # <<>> \/ out_rows[r].pid # <<>>)

\* a returned document with a placeholder row that has neither name nor
\* identifier and success false, and one that has a name and success true
C7_Witness ==
    /\ pc = "done"
    /\ \E b1, b2 \in DoneBlocks :
          /\ ParsedIn(b1) = {}
          /\ ParsedIn(b2) = {}
          /\ \E r \in RowsOf(b1) :
                /\ out_rows[r].name = <<>>
                /\ out_rows[r].pid = <<>>
                /\ ~out_rows[r].success
          /\ \E r \in RowsOf(b2) :
                out_rows[r].name # <<>> /\ out_rows[r].success

\* the identifier after the first MEMBER ID: of a line, <<>> without one
MemberWord == Chars("MEMBER")
IdWord == Chars("ID:")

IdOn ==
    [t \in Lines |->
        LET ws == WordsOn[t]
            at == {i \in 3..Len(ws) : ws[i - 2] = MemberWord /\ ws[i - 1] = IdWord}
        IN  IF at = {} THEN <<>> ELSE ws[Least(at)]]

\* the lines of block b with an identifier
IdLines(b) == {k \in 1..Len(texts) : IdOn[texts[k]] # <<>> /\ BlockOf(k) = b}

\* ------------------------------------------------------------------------
\* C8: every row of a block carries the identifier of the first line of
\* the block, from the header down, that has a MEMBER ID, empty when no
\* line has one; all rows of a block carry the same name, identifier and
\* ICN.
\* ------------------------------------------------------------------------
C8_FirstMemberIdWins ==
    \A b \in DoneBlocks :
        /\ \A r \in RowsOf(b) :
              out_rows[r].pid =
                  IF IdLines(b) = {} THEN <<>>
                  ELSE IdOn[texts[Least(IdLines(b))]]
        /\ \A r1, r2 \in RowsOf(b) :
              /\ out_rows[r1].name = out_rows[r2].name
              /\ out_rows[r1].pid = out_rows[r2].pid
              /\ out_rows[r1].icn = out_rows[r2].icn

\* a returned block of two or more rows in which two lines have different
\* identifiers
C8_Witness ==
    /\ pc = "done"
    /\ \E b \in DoneBlocks :
          /\ Cardinality(RowsOf(b)) >= 2
          /\ \E k1, k2 \in IdLines(b) :
                k1 < k2 /\ IdOn[texts[k1]] # IdOn[texts[k2]]

\* where each marker first occurs, case-insensitively, in the text after
\* MEMBER NAME: of a line; -1 for a marker that does not occur
MarkerAt ==
    [t \in Lines |->
        [k \in 1..Len(cut_points) |->
            IF MEMBER_RE_search(t) = None THEN -1
            ELSE Find(Upper(Strip(MEMBER_RE_search(t))), cut_points[k])]]

\* the text after MEMBER NAME: up to the earliest marker, stripped and
\* title-cased
NameOn ==
    [t \in Lines |->
        IF MEMBER_RE_search(t) = None THEN <<>>
        ELSE LET raw == Strip(MEMBER_RE_search(t))
                 at == {MarkerAt[t][k] : k \in 1..Len(cut_points)} \ {-1}
             IN  Title(Strip(IF at = {} THEN raw ELSE SubSeq(raw, 1, Least(at))))]

\* s is title-cased: a letter is upper case exactly when no letter
\* stands before it
TitleCased(s) ==
    \A i \in 1..Len(s) :
        IsAlpha(s[i]) =>
            IF i > 1 /\ IsAlpha(s[i - 1]) THEN s[i] \in Lowers ELSE s[i] \in Uppers

\* ------------------------------------------------------------------------
\* C9: the name of every row of a block is the text after MEMBER NAME: of
\* the header line, cut at the earliest occurrence of any of the markers
\* MEMBER ID, OTH INS CD, PA:, DIAG:, in whatever order they stand on the
\* line, and title-cased.
\* ------------------------------------------------------------------------
C9_NameCutAtEarliestMarker ==
    \A b \in DoneBlocks :
        \A r \in RowsOf(b) :
            /\ out_rows[r].name = NameOn[texts[starts[b]]]
            /\ TitleCased(out_rows[r].name)

\* a returned row with a name, from a header on which DIAG:, the last
\* marker of the list, occurs before MEMBER ID, the first of the list
C9_Witness ==
    /\ pc = "done"
    /\ \E b \in DoneBlocks :
          LET at == MarkerAt[texts[starts[b]]]
          IN  /\ at[1] # -1
              /\ at[4] # -1
              /\ at[4] < at[1]
              /\ \E r \in RowsOf(b) : out_rows[r].name # <<>>

\* a tooth word: a number 1..32 or a single letter A..T of either case
ToothWords ==
    {Dec(n) : n \in 1..32}
    \cup {<<UpperSeq[i]>> : i \in 1..20} \cup {<<LowerSeq[i]>> : i \in 1..20}

\* a surface word: one to four letters of M, D, B, O, I, L, F, P, of
\* either case
SurfaceLetters == {"M", "D", "B", "O", "I", "L", "F", "P"}

IsSurfaceWord(w) ==
    /\ Len(w) \in 1..4
    /\ \A i \in 1..Len(w) : ToUpper(w[i]) \in SurfaceLetters

\* the tooth and the surface among the words c+1 .. of ws, up to the first
\* six-digit word after word c: the tooth is the first tooth word, the
\* surface the first surface word after the tooth; with fromStart the
\* surface of a window without a tooth is its first surface word, without
\* fromStart such a window has no surface.  <<>> stands for none.
ToothAndSurface(ws, c, fromStart) ==
    LET dates == {i \in (c + 1)..Len(ws) : IsSixDigits(ws[i])}
        last == IF dates = {} THEN Len(ws) ELSE Least(dates) - 1
        teeth == {i \in (c + 1)..last : ws[i] \in ToothWords}
        from == IF teeth # {} THEN Least(teeth) + 1 ELSE c + 1
        surfs == {i \in from..last : IsSurfaceWord(ws[i])}
    IN  <<IF teeth = {} THEN <<>> ELSE Upper(ws[Least(teeth)]),
          IF surfs = {} \/ (teeth = {} /\ ~fromStart) THEN <<>>
          ELSE Upper(ws[Least(surfs)])>>

\* as the specification states it: the window begins after the procedure
\* code that follows PD, and a window without a tooth has no surface
StatedOn ==
    [t \in Lines |->
        IF CodePosOn[t] = 0 THEN <<>>
        ELSE ToothAndSurface(WordsOn[t], CodePosOn[t], FALSE)]

\* the window begins after the first word of the line that is the code
\* reported, wherever it stands, or without one after the first word that
\* is a code; a window without a tooth has its first surface word for a
\* surface
AmendedOn ==
    [t \in Lines |->
        IF CodePosOn[t] = 0 THEN <<>>
        ELSE LET ws == WordsOn[t]
                 code == CodeOf(ws[CodePosOn[t]])
                 same == {i \in 1..Len(ws) : ws[i] = code}
                 codes == {i \in 1..Len(ws) : ws[i] \in CodeWords}
             IN  ToothAndSurface(ws,
                     IF same # {} THEN Least(same) ELSE Least(codes), TRUE)]

\* the surface parsed from the line of row r, <<>> for None
SurfaceOfRow(r) == OrEmpty(scan[row_src[r].line].parsed[7])

\* ------------------------------------------------------------------------
\* C10, as the specification states it: the tooth of a row is the first
\* tooth word between the procedure code and the first six-digit token
\* after it, the surface the first surface word after that tooth word in
\* the same window, and both are empty when there is no such word.
\* ------------------------------------------------------------------------
C10_SurfaceOnlyAfterTooth ==
    \A r \in DetailRows :
        /\ out_rows[r].tooth = StatedOn[RowLine(r)][1]
        /\ SurfaceOfRow(r) = StatedOn[RowLine(r)][2]

\* ------------------------------------------------------------------------
\* C10, amended: the window runs from the first word that is the reported
\* code (or, without one, the first word that is a code) to the first
\* six-digit token after it; the tooth is the first
\* tooth word of the window, upper-cased; the surface is the first surface
\* word after the tooth word, or the first surface word of the window when
\* the window has no tooth; each is empty when there is no such word.
\* ------------------------------------------------------------------------
C10_SurfaceWithoutTooth ==
    \A r \in DetailRows :
        /\ out_rows[r].tooth = AmendedOn[RowLine(r)][1]
        /\ SurfaceOfRow(r) = AmendedOn[RowLine(r)][2]

\* a returned row with a tooth and a surface, parsed from a line on which
\* another surface word stands in the window before the tooth
C10_Witness ==
    /\ pc = "done"
    /\ \E r \in DetailRows :
          LET ws == WordsOn[RowLine(r)]
              c == CodePosOn[RowLine(r)]
          IN  /\ out_rows[r].tooth # <<>>
              /\ SurfaceOfRow(r) # <<>>
              /\ c + 3 <= Len(ws)
              /\ IsSurfaceWord(ws[c + 1])
              /\ Upper(ws[c + 1]) # SurfaceOfRow(r)
              /\ Upper(ws[c + 2]) = out_rows[r].tooth
              /\ Upper(ws[c + 3]) = SurfaceOfRow(r)

\* ------------------------------------------------------------------------
\* C11: from a document in which no line matches the member-name header
\* the extractor returns the empty list and raises nothing, whatever PD,
\* reference-number or MEMBER ID lines the document has.
\* ------------------------------------------------------------------------
C11_NoHeaderNoRows ==
    BlockOf(Len(texts)) = 0 =>
        /\ pc \in {"call", "done"}
        /\ out_rows = <<>>
        /\ starts = <<>>

\* the extractor has returned from a document without a header that has
\* a detail line that parses, a reference number and a MEMBER ID line
C11_Witness ==
    /\ pc = "done"
    /\ BlockOf(Len(texts)) = 0
    /\ \E k \in 1..Len(texts) : CodePosOn[texts[k]] # 0
    /\ \E k \in 1..Len(texts) : IcnNumberOn[texts[k]] # <<>>
    /\ \E k \in 1..Len(texts) : IdOn[texts[k]] # <<>>

\* ------------------------------------------------------------------------
\* C12: on every document the extractor returns: it never raises, and it
\* reaches its return statement.
\* ------------------------------------------------------------------------
C12_AlwaysReturns == [](pc # "raised") /\ <>(pc = "done")

\* the extractor has returned a row from a document whose first line is a
\* header without a name, with nothing above it, followed by a PD line
\* that does not parse
C12_Witness ==
    /\ pc = "done"
    /\ Len(texts) >= 2
    /\ scan[1].header
    /\ scan[1].mname = <<>>
    /\ DetailOn[texts[2]]
    /\ CodePosOn[texts[2]] = 0
    /\ Len(out_rows) = 1
    /\ out_rows[1].name = <<>>
    /\ out_rows[1].icn = <<>>
    /\ out_rows[1].code = <<>>

\* ------------------------------------------------------------------------
\* Slope-based clustering: the geometry helpers.
\*
\* Coordinates are integers and every comparison of the code is decided
\* exactly.  A line is kept as a point (x0/q, y0/q) and a direction (dx, dy)
\* with dx >= 0; the code's slope m is dy/dx, its m = inf is the direction
\* (0, 1), and its intercept b is the y (the x, when m = inf) of the line at
\* x = 0.  A tolerance is a fraction <<num, den>> of the median height.
\* ------------------------------------------------------------------------
Abs(x) == IF x < 0 THEN -x ELSE x

RECURSIVE Gcd(_, _)
Gcd(a, b) == IF b = 0 THEN a ELSE Gcd(b, a % b)

\* a * a <= b * b * s for naturals a, b > 0, s, without forming a * a
SqLe(a, b, s) ==
    LET q == a \div b
        t == a % b
    IN  /\ q <= 46340
        /\ q * q <= s
        /\ 2 * q * t * b + t * t <= b * b * (s - q * q)

\* sorted(s, key=...): the stable sort of s by a strict weak order
StableSort(s, Less(_, _)) ==
    LET Before(p) == {r \in 1..Len(s) :
                        \/ Less(s[r], s[p])
                        \/ (~Less(s[p], s[r]) /\ r < p)}
    IN  [k \in 1..Len(s) |->
            s[CHOOSE p \in 1..Len(s) : Cardinality(Before(p)) = k - 1]]

\* the elements of a set of indices in ascending order, as the iteration of
\* a Python set of small integers gives them
Ascending(S) ==
    [k \in 1..Cardinality(S) |->
        CHOOSE i \in S : Cardinality({j \in S : j < i}) = k - 1]

PERP_TOL_FACTOR == <<3, 5>>
SEED_BAND_H == 3
\* the pipeline with singleton lines switched off
SingletonsOff == FALSE

ALLOW_SINGLETON == TRUE
POST_Y_TOL_FACTOR == <<11, 20>>

\* hs = sorted(h > 0); h_med = hs[len(hs)//2] if hs else 16.0
MedianHeight(ws) ==
    LET P == {i \in 1..Len(ws) : ws[i].h > 0}
        k == Cardinality(P) \div 2
    IN  IF P = {} THEN 16
        ELSE CHOOSE v \in {ws[i].h : i \in P} :
                /\ Cardinality({i \in P : ws[i].h < v}) <= k
                /\ k < Cardinality({i \in P : ws[i].h <= v})

Reduced(dx, dy) ==
    LET g == Gcd(Abs(dx), Abs(dy))
    IN  IF g = 0 THEN <<0, 1>>
        ELSE IF dx < 0 THEN <<(-dx) \div g, (-dy) \div g>>
        ELSE <<dx \div g, dy \div g>>

\* line_from_points: the line through p0 and p1, vertical when dx = 0
line_from_points(p0, p1) ==
    LET dx == p1[1] - p0[1]
        dy == p1[2] - p0[2]
        d == IF dx = 0 THEN <<0, 1>> ELSE Reduced(dx, dy)
    IN  [q |-> 1, x0 |-> p0[1], y0 |-> p0[2], dx |-> d[1], dy |-> d[2]]

\* perp_distance(m, b, x, y) <= tol * h
PerpWithin(ln, x, y, tol, h) ==
    LET cross == ln.dy * (ln.q * x - ln.x0) - ln.dx * (ln.q * y - ln.y0)
    IN  SqLe(tol[2] * Abs(cross), tol[1] * h * ln.q,
             ln.dx * ln.dx + ln.dy * ln.dy)

Sum(f, S) ==
    LET RECURSIVE Acc(_)
        Acc(T) == IF T = {} THEN 0
                  ELSE LET i == CHOOSE j \in T : TRUE
                       IN  f[i] + Acc(T \ {i})
    IN  Acc(S)

\* refit_line: the least-squares line of the points, horizontal through a
\* single point, vertical when all x are equal
refit_line(xs, ys, S) ==
    LET n == Cardinality(S)
        sx == Sum(xs, S)
        sy == Sum(ys, S)
        num == n * Sum([i \in S |-> xs[i] * ys[i]], S) - sx * sy
        den == n * Sum([i \in S |-> xs[i] * xs[i]], S) - sx * sx
        d == IF n = 1 THEN <<1, 0>>
             ELSE IF den = 0 THEN <<0, 1>>
             ELSE Reduced(den, num)
    IN  [q |-> n, x0 |-> sx, y0 |-> sy, dx |-> d[1], dy |-> d[2]]

\* project_t up to the positive factor 1 / (dx * sqrt(1 + m * m)), which
\* leaves the order of the keys as it is
project_t(ln, x0, y0, x, y) == ln.dx * (x - x0) + ln.dy * (y - y0)

\* _build_line_result: the words of idxs ordered by their projection on the
\* line, measured from the word of least x
_build_line_result(xs, ys, S, ln) ==
    LET it == Ascending(S)
        o == CHOOSE p \in 1..Len(it) :
                /\ \A r \in 1..Len(it) : xs[it[p]] <= xs[it[r]]
                /\ \A r \in 1..(p - 1) : xs[it[r]] > xs[it[p]]
        x0 == xs[it[o]]
        y0 == ys[it[o]]
        t(i) == project_t(ln, x0, y0, xs[i], ys[i])
    IN  [ordered |-> StableSort(it, LAMBDA i, j : t(i) < t(j)),
         model |-> ln,
         sum_y |-> Sum(ys, S),
         count |-> Cardinality(S)]

\* lines.sort(key=lambda L: L["center_y"])
SortLines(ls) ==
    LET ByCenter(a, b) == a.sum_y * b.count < b.sum_y * a.count
        pos == StableSort([k \in 1..Len(ls) |-> k],
                          LAMBDA a, b : ByCenter(ls[a], ls[b]))
    IN  [k \in 1..Len(ls) |-> ls[pos[k]]]

\* ------------------------------------------------------------------------
\* cluster_tilted_lines
\* ------------------------------------------------------------------------
MaxWords == 3
MaxCrowd == 11

Word(x, y, height) == [cx |-> x, cy |-> y, h |-> height]

\* words of height 1 on a grid, a word without height and a taller word
WordPool ==
    {Word(x, y, 1) : x \in {0, 2, 4}, y \in {0, 1}}
    \cup {Word(4, 4, 1), Word(0, 0, 0), Word(2, 1, 2)}

\* many words stacked on one spot, then at most one word to their right
FarPool == {Word(4, 0, 1), Word(4, 1, 1)}

Crowded ==
    {[k \in 1..n |-> Word(0, 0, 1)] \o tail :
        n \in 0..MaxCrowd, tail \in SeqsUpTo(FarPool, 1)}

\* a bent row of which the refit line takes in a word that no trial line
\* did, with a word far above it; and a column of tall words with a word
\* beside it
Bent ==
    {<<Word(0, 1, 1), Word(2, 1, 1), Word(3, 0, 1), Word(4, 0, 1), Word(4, 4, 1)>>,
     <<Word(0, 0, 2), Word(0, 4, 2), Word(1, 2, 2)>>}

WordLists == SeqsUpTo(WordPool, MaxWords) \cup Crowded \cup Bent

CxOf(ws) == [i \in 1..Len(ws) |-> ws[i].cx]
CyOf(ws) == [i \in 1..Len(ws) |-> ws[i].cy]

\* order = sorted(remaining, key=(cy, cx)); the seed is its first index
\* still in remaining
Seed(ws, rem) ==
    LET order == StableSort(Ascending(1..Len(ws)),
                     LAMBDA i, j : \/ ws[i].cy < ws[j].cy
                                   \/ (ws[i].cy = ws[j].cy /\ ws[i].cx < ws[j].cx))
    IN  order[CHOOSE p \in 1..Len(order) :
                /\ order[p] \in rem
                /\ \A r \in 1..(p - 1) : order[r] \notin rem]

\* cand_idxs: the words of rest within band_dy of the seed's cy, nearest cx
\* first
cand_idxs(ws, seed, rest) ==
    LET band_dy == SEED_BAND_H * MedianHeight(ws)
        inband == {j \in rest : Abs(ws[j].cy - ws[seed].cy) <= band_dy}
    IN  StableSort(Ascending(inband),
            LAMBDA i, j : Abs(ws[i].cx - ws[seed].cx) < Abs(ws[j].cx - ws[seed].cx))

\* the indices of S within perp_tol of the line
Within(ws, ln, S) ==
    LET h_med == MedianHeight(ws)
    IN  {k \in S : PerpWithin(ln, ws[k].cx, ws[k].cy, PERP_TOL_FACTOR, h_med)}

\* the inliers of the trial line through the seed and j
Inliers(ws, seed, j, rest) ==
    {seed, j} \cup
    Within(ws, line_from_points(<<ws[seed].cx, ws[seed].cy>>, <<ws[j].cx, ws[j].cy>>), rest)

\* best_inliers: the first of the at most ten trials with the most inliers
best_inliers(ws, seed, rest) ==
    LET near == cand_idxs(ws, seed, rest)
        T == IF Len(near) < 10 THEN Len(near) ELSE 10
        size == [p \in 1..T |-> Cardinality(Inliers(ws, seed, near[p], rest))]
        best == CHOOSE p \in 1..T :
                    /\ \A r \in 1..T : size[r] <= size[p]
                    /\ \A r \in 1..(p - 1) : size[r] < size[p]
    IN  Inliers(ws, seed, near[best], rest)

\* expanded without the words the refit line takes in
ExpandedWithoutRefit(ws, seed, rest) == best_inliers(ws, seed, rest)

\* expanded: the best inliers and every remaining word within perp_tol of
\* the line refitted through them
Expanded(ws, seed, rest) ==
    LET best == best_inliers(ws, seed, rest)
    IN  best \cup Within(ws, refit_line(CxOf(ws), CyOf(ws), best), rest)

TiltedInit ==
    /\ words \in WordLists
    /\ remaining = {}
    /\ lines = <<>>
    /\ tpc = "call"
    /\ OnlyTilted

\* if not words: return []
ClusterEmpty ==
    /\ tpc = "call"
    /\ words = <<>>
    /\ tpc' = "done"
    /\ UNCHANGED <<words, remaining, lines>>
    /\ UNCHANGED not_tilted

\* remaining = set(range(n)); the while loop is entered
ClusterStart ==
    /\ tpc = "call"
    /\ words # <<>>
    /\ remaining' = 1..Len(words)
    /\ tpc' = "loop"
    /\ UNCHANGED <<words, lines>>
    /\ UNCHANGED not_tilted

\* one iteration without candidates: the seed becomes a line of its own
ClusterSingleton ==
    /\ tpc = "loop"
    /\ remaining # {}
    /\ LET seed == Seed(words, remaining)
           rest == remaining \ {seed}
       IN  /\ cand_idxs(words, seed, rest) = <<>>
           /\ remaining' = rest
           /\ lines' = IF ALLOW_SINGLETON
                       THEN Append(lines,
                               _build_line_result(CxOf(words), CyOf(words), {seed},
                                   refit_line(CxOf(words), CyOf(words), {seed})))
                       ELSE lines
    /\ UNCHANGED <<words, tpc>>
    /\ UNCHANGED not_tilted

\* one iteration with candidates: the trial lines, the refit, the expansion
ClusterLine ==
    /\ tpc = "loop"
    /\ remaining # {}
    /\ LET seed == Seed(words, remaining)
           rest == remaining \ {seed}
           best == best_inliers(words, seed, rest)
           expanded == Expanded(words, seed, rest)
       IN  /\ cand_idxs(words, seed, rest) # <<>>
           /\ remaining' = rest \ expanded
           /\ lines' = Append(lines,
                  _build_line_result(CxOf(words), CyOf(words), expanded,
                      refit_line(CxOf(words), CyOf(words), best)))
    /\ UNCHANGED <<words, tpc>>
    /\ UNCHANGED not_tilted

\* the pool is empty: lines.sort(key=center_y); return lines
ClusterReturn ==
    /\ tpc = "loop"
    /\ remaining = {}
    /\ lines' = SortLines(lines)
    /\ tpc' = "done"
    /\ UNCHANGED <<words, remaining>>
    /\ UNCHANGED not_tilted

TiltedNext == ClusterEmpty \/ ClusterStart \/ ClusterSingleton \/ ClusterLine \/ ClusterReturn

TiltedSpec == TiltedInit /\ [][TiltedNext]_vars

\* ------------------------------------------------------------------------
\* group_horizontal_lines
\* ------------------------------------------------------------------------
MaxRotated == 3

Rotated(x, y, height) == [cx_rot |-> x, cy_rot |-> y, h |-> height]

\* words of height 20 (y_tol = 11) at rotated-y 0, 11 and 12, one between
\* them, a word without height and a taller word
RotatedPool ==
    {Rotated(x, y, 20) : x \in {0, 2, 3}, y \in {0, 11, 12}}
    \cup {Rotated(3, 5, 20), Rotated(0, 0, 0), Rotated(2, 12, 40)}

RotatedLists == SeqsUpTo(RotatedPool, MaxRotated)

CxRotOf(ws) == [i \in 1..Len(ws) |-> ws[i].cx_rot]
CyRotOf(ws) == [i \in 1..Len(ws) |-> ws[i].cy_rot]

\* idxs.sort(key=(cy_rot, cx_rot))
SortedIdxs(ws) ==
    StableSort([k \in 1..Len(ws) |-> k],
        LAMBDA i, j : \/ ws[i].cy_rot < ws[j].cy_rot
                      \/ (ws[i].cy_rot = ws[j].cy_rot /\ ws[i].cx_rot < ws[j].cx_rot))

\* the band test against the word walked just before
InBandPrevious(ws, band, i) ==
    POST_Y_TOL_FACTOR[2] * Abs(ws[i].cy_rot - ws[band[Len(band)]].cy_rot)
        <= POST_Y_TOL_FACTOR[1] * MedianHeight(ws)

\* abs(yi - y0) <= y_tol, y0 the rotated-y of the band's first word
InBand(ws, band, i) ==
    POST_Y_TOL_FACTOR[2] * Abs(ws[i].cy_rot - ws[band[1]].cy_rot)
        <= POST_Y_TOL_FACTOR[1] * MedianHeight(ws)

\* flush(): the band becomes a line, ordered by _build_line_result
Flush(ws, ls, band) ==
    IF band = <<>> THEN ls
    ELSE Append(ls,
            _build_line_result(CxRotOf(ws), CyRotOf(ws), Range(band),
                refit_line(CxRotOf(ws), CyRotOf(ws), Range(band))))

HorizInit ==
    /\ rotated_words \in RotatedLists
    /\ idxs = <<>>
    /\ gi = 0
    /\ cur = <<>>
    /\ post_lines = <<>>
    /\ gpc = "call"
    /\ OnlyHoriz

\* if not rotated_words: return []
GroupEmpty ==
    /\ gpc = "call"
    /\ rotated_words = <<>>
    /\ gpc' = "done"
    /\ UNCHANGED <<rotated_words, idxs, gi, cur, post_lines>>
    /\ UNCHANGED not_horiz

\* the indices are sorted and the for loop is entered
GroupStart ==
    /\ gpc = "call"
    /\ rotated_words # <<>>
    /\ idxs' = SortedIdxs(rotated_words)
    /\ gi' = 1
    /\ gpc' = "loop"
    /\ UNCHANGED <<rotated_words, cur, post_lines>>
    /\ UNCHANGED not_horiz

\* if not cur: cur = [i]
GroupFirst ==
    /\ gpc = "loop"
    /\ gi <= Len(idxs)
    /\ cur = <<>>
    /\ cur' = <<idxs[gi]>>
    /\ gi' = gi + 1
    /\ UNCHANGED <<rotated_words, idxs, post_lines, gpc>>
    /\ UNCHANGED not_horiz

\* the word is within y_tol of the band's first word: cur.append(i)
GroupJoin ==
    /\ gpc = "loop"
    /\ gi <= Len(idxs)
    /\ cur # <<>>
    /\ InBand(rotated_words, cur, idxs[gi])
    /\ cur' = Append(cur, idxs[gi])
    /\ gi' = gi + 1
    /\ UNCHANGED <<rotated_words, idxs, post_lines, gpc>>
    /\ UNCHANGED not_horiz

\* the word is further: flush(); cur = [i]
GroupBreak ==
    /\ gpc = "loop"
    /\ gi <= Len(idxs)
    /\ cur # <<>>
    /\ ~InBand(rotated_words, cur, idxs[gi])
    /\ post_lines' = Flush(rotated_words, post_lines, cur)
    /\ cur' = <<idxs[gi]>>
    /\ gi' = gi + 1
    /\ UNCHANGED <<rotated_words, idxs, gpc>>
    /\ UNCHANGED not_horiz

\* after the loop: flush(); lines.sort(key=center_y); return lines
GroupReturn ==
    /\ gpc = "loop"
    /\ gi > Len(idxs)
    /\ post_lines' = SortLines(Flush(rotated_words, post_lines, cur))
    /\ cur' = <<>>
    /\ gpc' = "done"
    /\ UNCHANGED <<rotated_words, idxs, gi>>
    /\ UNCHANGED not_horiz

HorizNext == GroupEmpty \/ GroupStart \/ GroupFirst \/ GroupJoin \/ GroupBreak \/ GroupReturn

HorizSpec == HorizInit /\ [][HorizNext]_vars

\* both functions of the line pipeline, each started on its own input
LinesInit == TiltedInit \/ HorizInit

LinesNext == TiltedNext \/ HorizNext

LinesSpec == LinesInit /\ [][LinesNext]_vars

\* ------------------------------------------------------------------------
\* The claims about the lines.
\* ------------------------------------------------------------------------
\* the number of lines of ls that hold word i
LinesHolding(ls, i) == Cardinality({k \in 1..Len(ls) : i \in Range(ls[k].ordered)})

CountSum(ls) == Sum([k \in 1..Len(ls) |-> ls[k].count], 1..Len(ls))

NoWordTwice(l) == Cardinality(Range(l.ordered)) = Len(l.ordered) /\ l.count = Len(l.ordered)

\* C13: when cluster_tilted_lines (singleton lines enabled) or
\* group_horizontal_lines has returned, every input word is on exactly one
\* output line: no word is on two lines or twice on one, none is lost, the
\* counts of the lines add up to the number of words; and the clustering
\* loop has ended with an empty pool.
C13_EveryWordOnOneLine ==
    /\ tpc = "done" =>
          /\ \A i \in 1..Len(words) : LinesHolding(lines, i) = 1
          /\ \A k \in 1..Len(lines) : NoWordTwice(lines[k])
          /\ CountSum(lines) = Len(words)
          /\ remaining = {}
    /\ gpc = "done" =>
          /\ \A i \in 1..Len(rotated_words) : LinesHolding(post_lines, i) = 1
          /\ \A k \in 1..Len(post_lines) : NoWordTwice(post_lines[k])
          /\ CountSum(post_lines) = Len(rotated_words)

\* three words clustered into a line of two and a line of one
C13_Witness ==
    /\ tpc = "done"
    /\ Len(words) = 3
    /\ Len(lines) = 2
    /\ \E k \in 1..2 : lines[k].count = 2
    /\ \E k \in 1..2 : lines[k].count = 1

\* the centroids of ws are on one common line
Colinear(ws) ==
    \A i, j, k \in 1..Len(ws) :
        (ws[j].cx - ws[i].cx) * (ws[k].cy - ws[i].cy)
            = (ws[k].cx - ws[i].cx) * (ws[j].cy - ws[i].cy)

\* every word is within 3 x the median height of the first seed's cy
InFirstBand(ws) ==
    \A i \in 1..Len(ws) :
        Abs(ws[i].cy - ws[Seed(ws, 1..Len(ws))].cy) <= 3 * MedianHeight(ws)

\* C14: if the centroids of all input words are exactly colinear and all
\* are within one seed band of the first seed, cluster_tilted_lines returns
\* a single line that holds all of them.
C14_ColinearOneLine ==
    (tpc = "done" /\ words # <<>> /\ Colinear(words) /\ InFirstBand(words)) =>
        /\ Len(lines) = 1
        /\ lines[1].count = Len(words)

\* the rotated-y of word i is within y_tol = 0.55 x the median height of
\* that of word j
NearInY(i, j) ==
    20 * Abs(rotated_words[i].cy_rot - rotated_words[j].cy_rot)
        <= 11 * MedianHeight(rotated_words)

\* the first word of a returned line in the (rotated-y, rotated-x) walk
FirstOfLine(l) ==
    CHOOSE i \in Range(l.ordered) :
        \A j \in Range(l.ordered) :
            \E p, r \in 1..Len(idxs) : idxs[p] = i /\ idxs[r] = j /\ p <= r

\* C15: in group_horizontal_lines the words are walked in (rotated-y,
\* rotated-x) order, and the word walked joins the current band if and only
\* if its rotated-y differs from that of the band's first word by at most
\* y_tol; otherwise the band is flushed and the word starts a new band.
\* Hence every member of a band, and of a returned line, is within y_tol
\* of its first member.
C15_JoinsIffNearFirst ==
    /\ [][(gpc = "loop" /\ gi <= Len(idxs) /\ cur # <<>>) =>
            IF NearInY(idxs[gi], cur[1])
            THEN cur' = Append(cur, idxs[gi]) /\ post_lines' = post_lines
            ELSE /\ cur' = <<idxs[gi]>>
                 /\ Len(post_lines') = Len(post_lines) + 1
                 /\ Range(post_lines'[Len(post_lines')].ordered) = Range(cur)]_vars
    /\ [](\A p, r \in 1..Len(idxs) :
            p <= r =>
                \/ rotated_words[idxs[p]].cy_rot < rotated_words[idxs[r]].cy_rot
                \/ /\ rotated_words[idxs[p]].cy_rot = rotated_words[idxs[r]].cy_rot
                   /\ rotated_words[idxs[p]].cx_rot <= rotated_words[idxs[r]].cx_rot)
    /\ [](\A k \in 1..Len(cur) : NearInY(cur[k], cur[1]))
    /\ [](\A k \in 1..Len(post_lines) :
            \A i \in Range(post_lines[k].ordered) :
                NearInY(i, FirstOfLine(post_lines[k])))

\* words at rotated-y 0, 11 and 12 with y_tol = 11: the second is exactly
\* y_tol from the first and shares its line, the third is 1 from the second
\* and starts a line of its own
C15_Witness ==
    /\ gpc = "done"
    /\ Len(rotated_words) = 3
    /\ MedianHeight(rotated_words) = 20
    /\ {rotated_words[i].cy_rot : i \in 1..3} = {0, 11, 12}
    /\ Len(post_lines) = 2
    /\ post_lines[1].count = 2
    /\ post_lines[2].count = 1

\* C16: in every line returned by group_horizontal_lines the words, and so
\* the space-joined text, are ordered left to right by rotated-x: cx_rot
\* never decreases along the line, whatever slope was fitted through the
\* band.
C16_OrderedByRotatedX ==
    \A k \in 1..Len(post_lines) :
        \A p, r \in 1..Len(post_lines[k].ordered) :
            p < r =>
                rotated_words[post_lines[k].ordered[p]].cx_rot
                    <= rotated_words[post_lines[k].ordered[r]].cx_rot

\* ------------------------------------------------------------------------
\* estimate_skew_hough, preview_score and the fusion of
\* smart_deskew_with_lines.  Angles are integers, in hundredths of a degree.
\* ------------------------------------------------------------------------
MaxTheta == 179
MaxSame == 9

RECURSIVE FoldDown(_)
\* while ang > 45: ang -= 90
FoldDown(ang) == IF ang > 4500 THEN FoldDown(ang - 9000) ELSE ang

RECURSIVE FoldUp(_)
\* while ang < -45: ang += 90
FoldUp(ang) == IF ang < -4500 THEN FoldUp(ang + 9000) ELSE ang

\* ang = (theta - pi/2) * 180/pi, folded
Folded(theta) == FoldUp(FoldDown(theta - 9000))

\* np.median: the middle of the sorted values, the mean of the two middle
\* ones when their number is even
Median(s) ==
    LET t == StableSort(s, LAMBDA a, b : a < b)
        n == Len(s)
    IN  IF n % 2 = 1 THEN t[(n + 1) \div 2]
        ELSE (t[n \div 2] + t[(n \div 2) + 1]) \div 2

\* angs[np.abs(angs - med) <= 10.0]
Keep(as, med) == SelectSeq(as, LAMBDA a : Abs(a - med) <= 1000)

\* the sample count of the estimator: int(angs.size)
SampleCount(as, kept) == Len(as)

\* estimate_skew_hough on the lines HoughLines returns, <<>> for None
estimate_skew_hough(ths) ==
    IF ths = <<>> THEN [a |-> 0, n |-> 0, angs |-> <<>>, keep |-> <<>>]
    ELSE LET as == [k \in 1..Len(ths) |-> Folded(ths[k])]
             med == Median(as)
             kept == Keep(as, med)
         IN  [a |-> IF kept # <<>> THEN Median(kept) ELSE med,
              n |-> SampleCount(as, kept),
              angs |-> as,
              keep |-> kept]

\* the lines HoughLines finds in the preview rotated by deskew_angle: an
\* image whose text is skewed by img.skew shows one line at the skew left
\* after the rotation, when that is at most img.visible, and none otherwise
PreviewLines(im, deskew_angle) ==
    IF Abs(im.skew + deskew_angle) <= im.visible
    THEN <<(9000 + im.skew + deskew_angle) % 18000>>
    ELSE <<>>

\* preview_score: abs(resid) if n > 0 else 90.0
preview_score(im, deskew_angle) ==
    LET r == estimate_skew_hough(PreviewLines(im, deskew_angle))
    IN  IF r.n > 0 THEN Abs(r.a) ELSE 9000

\* candidates that take an estimate with any sample at all
CandidatesAnySample(ah, nh, ap, np) ==
    LET c == (IF nh >= 1 THEN <<ah, -ah>> ELSE <<>>)
             \o (IF np >= 1 THEN <<ap, -ap>> ELSE <<>>)
    IN  IF c = <<>> THEN <<0>> ELSE c

\* candidates: the estimates with at least 10 samples and their negations
Candidates(ah, nh, ap, np) ==
    LET c == (IF nh >= 10 THEN <<ah, -ah>> ELSE <<>>)
             \o (IF np >= 10 THEN <<ap, -ap>> ELSE <<>>)
    IN  IF c = <<>> THEN <<0>> ELSE c

\* the candidate as it is
NoClamp(a, c) == a

\* a = max(-clamp_deg, min(clamp_deg, a))
Clamp(a, c) ==
    LET lo == IF c < a THEN c ELSE a
    IN  IF -c > lo THEN -c ELSE lo

RECURSIVE Retain(_, _)
\* the values of s kept by: if all(abs(a - b) > 0.05 for b in kept)
Retain(s, kept) ==
    IF s = <<>> THEN kept
    ELSE Retain(Tail(s),
                IF \A k \in 1..Len(kept) : Abs(Head(s) - kept[k]) > 5
                THEN Append(kept, Head(s)) ELSE kept)

Offsets == <<-60, -40, -20, 0, 20, 40, 60>>

\* g = a + d for a in cand, for d in the offsets, in that order
Generated(c) ==
    [k \in 1..(7 * Len(c)) |-> c[((k - 1) \div 7) + 1] + Offsets[((k - 1) % 7) + 1]]

\* the last pair of least cost
LastMin(sc) ==
    sc[CHOOSE p \in 1..Len(sc) :
          /\ \A r \in 1..Len(sc) : sc[p][2] <= sc[r][2]
          /\ \A r \in (p + 1)..Len(sc) : sc[r][2] > sc[p][2]]

\* min(scored, key=cost): the first pair of least cost
FirstMin(sc) ==
    sc[CHOOSE p \in 1..Len(sc) :
          /\ \A r \in 1..Len(sc) : sc[p][2] <= sc[r][2]
          /\ \A r \in 1..(p - 1) : sc[r][2] > sc[p][2]]

\* the lines of the page: one line at every whole degree, or up to MaxSame
\* lines at each of four angles
SameTheta(n, theta) == [k \in 1..n |-> theta]

HoughCounts == {0, 1, MaxSame}

HoughResults ==
    {<<100 * d>> : d \in 0..MaxTheta}
    \cup {SameTheta(n1, 9000) \o SameTheta(n2, 9200)
            \o SameTheta(n3, 13000) \o SameTheta(n4, 13500) :
            n1 \in HoughCounts, n2 \in HoughCounts,
            n3 \in HoughCounts, n4 \in HoughCounts}

\* what estimate_skew_pairs returns: (0.0, 0) without words, else an angle
\* within 15 degrees and its sample count
PairEstimates ==
    {[a |-> 0, n |-> 0], [a |-> 120, n |-> 9], [a |-> 120, n |-> 10],
     [a |-> -3, n |-> 12], [a |-> 1500, n |-> 10]}

Images ==
    {[skew |-> s, visible |-> v] : s \in {0, 200, 3060}, v \in {-1, 30, 18000}}

DeskewInit ==
    /\ thetas \in HoughResults
    /\ img \in Images
    /\ clamp_deg \in {3000, 100}
    /\ angs = <<>>
    /\ keep = <<>>
    /\ a_h = 0
    /\ n_h = 0
    /\ a_p = 0
    /\ n_p = 0
    /\ candidates = <<>>
    /\ cand = <<>>
    /\ grid = <<>>
    /\ scored = <<>>
    /\ best_angle = 0
    /\ dpc = "hough"
    /\ OnlyDeskew

\* a_h, n_h = estimate_skew_hough(img)
EstimateHough ==
    /\ dpc = "hough"
    /\ LET r == estimate_skew_hough(thetas)
       IN  /\ a_h' = r.a
           /\ n_h' = r.n
           /\ angs' = r.angs
           /\ keep' = r.keep
    /\ dpc' = "pairs"
    /\ UNCHANGED <<thetas, a_p, n_p, clamp_deg, img, candidates, cand, grid,
                   scored, best_angle>>
    /\ UNCHANGED not_deskew

\* a_p, n_p = (0.0, 0), or what estimate_skew_pairs returns
EstimatePairs ==
    /\ dpc = "pairs"
    /\ \E e \in PairEstimates :
          /\ a_p' = e.a
          /\ n_p' = e.n
    /\ dpc' = "fuse"
    /\ UNCHANGED <<thetas, angs, keep, a_h, n_h, clamp_deg, img, candidates,
                   cand, grid, scored, best_angle>>
    /\ UNCHANGED not_deskew

\* candidates, then cand: each candidate clamped and kept if it is more
\* than 0.05 from those kept before
Fuse ==
    /\ dpc = "fuse"
    /\ candidates' = Candidates(a_h, n_h, a_p, n_p)
    /\ cand' = Retain([k \in 1..Len(candidates') |->
                          Clamp(candidates'[k], clamp_deg)], <<>>)
    /\ dpc' = "grid"
    /\ UNCHANGED <<thetas, angs, keep, a_h, n_h, a_p, n_p, clamp_deg, img,
                   grid, scored, best_angle>>
    /\ UNCHANGED not_deskew

\* grid: the seven offsets around every candidate, deduplicated
BuildGrid ==
    /\ dpc = "grid"
    /\ grid' = Retain(Generated(cand), <<>>)
    /\ dpc' = "score"
    /\ UNCHANGED <<thetas, angs, keep, a_h, n_h, a_p, n_p, clamp_deg, img,
                   candidates, cand, scored, best_angle>>
    /\ UNCHANGED not_deskew

\* scored = [(a, preview_score(img, -a)) for a in grid]
Score ==
    /\ dpc = "score"
    /\ scored' = [k \in 1..Len(grid) |-> <<grid[k], preview_score(img, -grid[k])>>]
    /\ dpc' = "choose"
    /\ UNCHANGED <<thetas, angs, keep, a_h, n_h, a_p, n_p, clamp_deg, img,
                   candidates, cand, grid, best_angle>>
    /\ UNCHANGED not_deskew

\* best_angle, best_cost = min(scored, key=cost)
Choose ==
    /\ dpc = "choose"
    /\ best_angle' = FirstMin(scored)[1]
    /\ dpc' = "done"
    /\ UNCHANGED <<thetas, angs, keep, a_h, n_h, a_p, n_p, clamp_deg, img,
                   candidates, cand, grid, scored>>
    /\ UNCHANGED not_deskew

DeskewNext == EstimateHough \/ EstimatePairs \/ Fuse \/ BuildGrid \/ Score \/ Choose

DeskewSpec == DeskewInit /\ [][DeskewNext]_vars

\* ------------------------------------------------------------------------
\* The claims about the deskew angle.
\* ------------------------------------------------------------------------
Fused == dpc \in {"grid", "score", "choose", "done"}

\* C17: in the fusion step an estimator's angle and its negation are
\* candidates if and only if the estimator's sample count is at least 10
\* (the edge-based pair first); with neither estimator at 10 the candidate
\* list is the single angle 0.  Every retained candidate is within
\* [-clamp_deg, +clamp_deg], any two retained candidates differ by more
\* than 0.05 degrees, and a candidate is dropped only when it is within
\* 0.05 degrees of a retained one.
C17_FusionCandidates ==
    Fused =>
        /\ (n_h < 10 /\ n_p < 10) => candidates = <<0>>
        /\ (n_h >= 10 /\ n_p < 10) => candidates = <<a_h, -a_h>>
        /\ (n_h < 10 /\ n_p >= 10) => candidates = <<a_p, -a_p>>
        /\ (n_h >= 10 /\ n_p >= 10) => candidates = <<a_h, -a_h, a_p, -a_p>>
        /\ \A k \in 1..Len(cand) : -clamp_deg <= cand[k] /\ cand[k] <= clamp_deg
        /\ \A j, k \in 1..Len(cand) : j # k => Abs(cand[j] - cand[k]) > 5
        /\ \A k \in 1..Len(candidates) :
              \E j \in 1..Len(cand) :
                  \/ Abs(cand[j] - candidates[k]) <= 5
                  \/ (candidates[k] > clamp_deg /\ Abs(cand[j] - clamp_deg) <= 5)
                  \/ (candidates[k] < -clamp_deg /\ Abs(cand[j] + clamp_deg) <= 5)

\* both estimators qualify, the edge-based angle is beyond the clamp, and
\* the clamped word-pair candidates fall on the retained ones
C17_Witness ==
    /\ dpc = "done"
    /\ n_h >= 10
    /\ n_p >= 10
    /\ a_h > clamp_deg
    /\ Len(candidates) = 4
    /\ Len(cand) = 2

\* the least cost among the scored grid angles
LeastCost == CHOOSE c \in {scored[p][2] : p \in 1..Len(scored)} :
                \A p \in 1..Len(scored) : c <= scored[p][2]

\* the place of angle g in the order of generation: candidates in their
\* order, and for each the offsets from -0.6 to +0.6 in steps of 0.2
GenerationRank(g) ==
    CHOOSE r \in 1..(7 * Len(cand)) :
        /\ cand[((r - 1) \div 7) + 1] + 20 * ((r - 1) % 7) - 60 = g
        /\ \A q \in 1..(r - 1) : cand[((q - 1) \div 7) + 1] + 20 * ((q - 1) % 7) - 60 # g

\* the preview deskewed by -g shows lines
ShowsLines(g) == PreviewLines(img, -g) # <<>>

\* C18: the final angle is the grid angle of least preview cost, and among
\* several grid angles of that cost the one generated first (candidate
\* order, then the offsets from -0.6 to +0.6).  A preview with detected
\* lines costs at most 45 and one without costs 90, so a grid angle without
\* detected lines is never chosen while some grid angle has them.
C18_FirstLeastCost ==
    dpc = "done" =>
        /\ Len(scored) = Len(grid)
        /\ \A p \in 1..Len(grid) :
              /\ scored[p][1] = grid[p]
              /\ ShowsLines(grid[p]) => scored[p][2] <= 4500
              /\ ~ShowsLines(grid[p]) => scored[p][2] = 9000
        /\ \E p \in 1..Len(grid) :
              /\ best_angle = grid[p]
              /\ scored[p][2] = LeastCost
              /\ \A q \in 1..Len(grid) :
                    scored[q][2] = LeastCost =>
                        GenerationRank(grid[p]) <= GenerationRank(grid[q])
        /\ (\E p \in 1..Len(grid) : ShowsLines(grid[p])) => ShowsLines(best_angle)

\* two grid angles share the least cost, the first generated is chosen, and
\* a third grid angle shows no lines
C18_Witness ==
    /\ dpc = "done"
    /\ \E p, q, r \in 1..Len(scored) :
          /\ p < q
          /\ scored[p][2] = LeastCost
          /\ scored[q][2] = LeastCost
          /\ best_angle = scored[p][1]
          /\ ShowsLines(scored[p][1])
          /\ ~ShowsLines(scored[r][1])

Estimated == dpc \notin {"idle", "hough"}

\* C19: the edge-based estimator folds the angle of every detected line
\* into the half-open range [-45, 45) degrees: for every theta in [0, 180)
\* degrees the folded angle a has -45 <= a < 45, and a line at theta = 135
\* degrees is not left at +45.
C19_FoldedHalfOpen ==
    Estimated =>
        \A k \in 1..Len(angs) : -4500 <= angs[k] /\ angs[k] < 4500

\* the number of lines the returned median is taken of: those within 10
\* degrees of the first median, or all of them when none is
Contributing == IF keep # <<>> THEN Len(keep) ELSE Len(angs)

\* C20: the sample count the edge-based estimator returns, which the fusion
\* step compares with 10, is the number of lines the final median is taken
\* of, those within 10 degrees of the first median, not the number of all
\* detected lines.
C20_CountOfKeptLines ==
    Estimated => n_h = Contributing

\* ------------------------------------------------------------------------
\* The returned angle and the clamp
\* ------------------------------------------------------------------------
\* a returned angle: result["angle_deg"] = float(best_angle)
Returned == dpc = "done"

\* the largest offset of the grid, 0.6 degrees
MaxOffset == Offsets[Len(Offsets)]

\* C28 (as stated): the angle returned by smart_deskew_with_lines is at most
\* clamp_deg in magnitude.
C28_AngleWithinClamp == Returned => Abs(best_angle) <= clamp_deg

\* C28 (amended): the candidates are clamped, the grid around them is not:
\* the returned angle is at most clamp_deg + 0.6 in magnitude.
C28_AngleWithinClampAndOffset ==
    /\ Fused => \A k \in 1..Len(cand) : Abs(cand[k]) <= clamp_deg
    /\ Returned => Abs(best_angle) <= clamp_deg + MaxOffset

\* an estimate beyond the clamp was clamped, and the angle returned is
\* beyond the clamp
C28_Witness ==
    /\ Returned
    /\ \E k \in 1..Len(candidates) : Abs(candidates[k]) > clamp_deg
    /\ Abs(best_angle) > clamp_deg

\* ------------------------------------------------------------------------
\* The words of a line and the line's refit model
\* ------------------------------------------------------------------------
\* perp_distance(m, b, cx, cy) <= perp_tol for word i and the model of line l
NearModel(l, i) ==
    PerpWithin(l.model, words[i].cx, words[i].cy, PERP_TOL_FACTOR, MedianHeight(words))

\* the line appended last, while the loop runs
Emitted == lines[Len(lines)]

\* the pool as it was when the last line was begun, its seed, and the
\* inliers of the winning trial line
PoolBefore == remaining \cup Range(Emitted.ordered)

SeedBefore == Seed(words, PoolBefore)

TrialInliers == best_inliers(words, SeedBefore, PoolBefore \ {SeedBefore})

\* C23: immediately after cluster_tilted_lines has emitted a line of more
\* than one word, no word left in the pool is within perp_tol of the refit
\* model of that line.
C23_ExpansionAbsorbs ==
    (tpc = "loop" /\ lines # <<>> /\ Emitted.count > 1) =>
        \A i \in remaining : ~NearModel(Emitted, i)

\* the refit line took in a word that was not an inlier of the winning trial
\* line, and a word is left in the pool
C23_Witness ==
    /\ tpc = "loop"
    /\ lines # <<>>
    /\ Emitted.count > 1
    /\ Range(Emitted.ordered) # TrialInliers
    /\ remaining # {}

\* C29: every word of a line returned by cluster_tilted_lines is within
\* perp_tol of the line's refit model.
C29_WordsNearRefitModel ==
    tpc = "done" =>
        \A k \in 1..Len(lines) : \A i \in Range(lines[k].ordered) : NearModel(lines[k], i)

\* ------------------------------------------------------------------------
\* The ICN scan and the previous block's header
\* ------------------------------------------------------------------------
\* the numbered lines of the window of header b that lie below the header
\* of the block before it
IcnBetween(b) ==
    {k \in IcnAbove(starts[b]) : b > 1 => k > starts[b - 1]}

Highest(W) == CHOOSE k \in W : \A j \in W : j <= k

\* C30 (as stated): the ICN of a block is never taken from a line above the
\* previous block's header: a block with an ICN has a numbered line between
\* the previous header and its own.
C30_IcnNotPastPreviousHeader ==
    \A b \in DoneBlocks :
        \A r \in RowsOf(b) :
            out_rows[r].icn # <<>> => IcnBetween(b) # {}

\* C30 (amended): the scan is bounded by the five lines above the header
\* and by the top of the document, not by the previous header: the ICN is
\* that of the nearest numbered line of the window, also when that line is
\* above the previous block's header, and a block without a numbered line
\* in its window has no ICN.
C30_IcnScanPassesHeaders ==
    \A b \in DoneBlocks :
        \A r \in RowsOf(b) :
            LET W == IcnAbove(starts[b])
            IN  /\ out_rows[r].icn # <<>> => W # {}
                /\ IcnBetween(b) # {} =>
                      out_rows[r].icn = IcnNumberOn[texts[Highest(IcnBetween(b))]]
                /\ (IcnBetween(b) = {} /\ W # {}) =>
                      /\ out_rows[r].icn = IcnNumberOn[texts[Highest(W)]]
                      /\ Highest(W) < starts[b - 1]

\* a returned document in which a block and the block before it have the
\* ICN of the same line, which is above both headers
C30_Witness ==
    /\ pc = "done"
    /\ \E b \in DoneBlocks :
          /\ b > 1
          /\ IcnBetween(b) = {}
          /\ IcnAbove(starts[b]) # {}
          /\ Highest(IcnAbove(starts[b])) = Highest(IcnAbove(starts[b - 1]))
          /\ \A r \in RowsOf(b) \cup RowsOf(b - 1) :
                out_rows[r].icn = IcnNumberOn[texts[Highest(IcnAbove(starts[b]))]]

\* ------------------------------------------------------------------------
\* estimate_skew_pairs
\*
\* Coordinates, widths and heights are integers; a median is kept as twice
\* its value and an angle in hundredths of a degree.
\* ------------------------------------------------------------------------
MaxPairWords == 3

PairWord(x, y, width, height) == [cx |-> x, cy |-> y, w |-> width, h |-> height]

\* words of width 5 and height 1 on a grid (min_dx = 4, y_band = 2), a wide
\* word and a word without width and height
PairPool ==
    {PairWord(x, y, 5, 1) : x \in {0, 4, 8}, y \in {0, 1, 3}}
    \cup {PairWord(4, 1, 10, 1), PairWord(0, 0, 0, 0)}

\* a row of five words and a sixth word one step lower at its end
PairRow ==
    [k \in 1..5 |-> PairWord(4 * (k - 1), 0, 5, 1)] \o <<PairWord(20, 1, 5, 1)>>

PairLists == SeqsUpTo(PairPool, MaxPairWords) \cup {PairRow}

\* twice np.median of a non-empty sequence
TwiceMedian(s) ==
    LET t == StableSort(s, LAMBDA a, b : a < b)
        n == Len(s)
    IN  IF n % 2 = 1 THEN 2 * t[(n + 1) \div 2]
        ELSE t[n \div 2] + t[(n \div 2) + 1]

Positive(s) == SelectSeq(s, LAMBDA v : v > 0)

\* twice w_med and twice h_med, 10.0 and 16.0 without a positive value
w_med2(ws) ==
    LET widths == Positive([i \in 1..Len(ws) |-> ws[i].w])
    IN  IF widths = <<>> THEN 20 ELSE TwiceMedian(widths)

h_med2(ws) ==
    LET heights == Positive([i \in 1..Len(ws) |-> ws[i].h])
    IN  IF heights = <<>> THEN 32 ELSE TwiceMedian(heights)

\* sorted(words, key=lambda w: (w["cy"], w["cx"]))
SortedByRow(ws) ==
    StableSort(ws, LAMBDA a, b : a.cy < b.cy \/ (a.cy = b.cy /\ a.cx < b.cx))

\* dx < min_dx, min_dx = max(4.0, 0.8 * w_med)
BelowMinDx(ws, dx) == dx < 4 \/ 5 * dx < 2 * w_med2(ws)

\* the words the inner loop accepts for word i: those after i in
\* words_sorted, before the break at dy > y_band, with abs(dy) <= y_band,
\* dx > 0 and dx >= min_dx
Accepted(ws, sw, i) ==
    LET yb == h_med2(ws)
        visited == {j \in (i + 1)..Len(sw) :
                      \A k \in (i + 1)..j : sw[k].cy - sw[i].cy <= yb}
    IN  {j \in visited :
            /\ Abs(sw[j].cy - sw[i].cy) <= yb
            /\ sw[j].cx - sw[i].cx > 0
            /\ ~BelowMinDx(ws, sw[j].cx - sw[i].cx)}

\* the words of words_sorted, i apart, that are to the right of word i by
\* min_dx or more and within y_band of it, above or below
AcceptedAround(ws, sw, i) ==
    {j \in (1..Len(sw)) \ {i} :
        /\ Abs(sw[j].cy - sw[i].cy) <= h_med2(ws)
        /\ sw[j].cx - sw[i].cx > 0
        /\ ~BelowMinDx(ws, sw[j].cx - sw[i].cx)}

\* best_j: the first accepted word of least dx, 0 for None
BestJ(ws, sw, i) ==
    LET ok == Accepted(ws, sw, i)
    IN  IF ok = {} THEN 0
        ELSE CHOOSE j \in ok :
                \A k \in ok : \/ sw[j].cx < sw[k].cx
                              \/ (sw[j].cx = sw[k].cx /\ j <= k)

\* math.degrees(math.atan2(dy, dx)) in hundredths of a degree, for dx in
\* 1..8 and abs(dy) <= 3
DegreesTable ==
    << <<0, 0, 0, 0, 0, 0, 0, 0>>,
       <<4500, 2657, 1843, 1404, 1131, 946, 813, 713>>,
       <<6343, 4500, 3369, 2657, 2180, 1843, 1595, 1404>>,
       <<7157, 5631, 4500, 3687, 3096, 2657, 2320, 2056>> >>

Degrees(dy, dx) ==
    IF dy < 0 THEN -DegreesTable[1 - dy][dx] ELSE DegreesTable[1 + dy][dx]

\* the pair of word i, if it has a partner: <<ang, max(1.0, dx)>>
PairOf(sw, i, j) ==
    [v |-> Degrees(sw[j].cy - sw[i].cy, sw[j].cx - sw[i].cx),
     w |-> IF sw[j].cx - sw[i].cx < 1 THEN 1 ELSE sw[j].cx - sw[i].cx]

\* pairs: the pairs of the words with a partner and abs(ang) <= max_abs_deg
RECURSIVE PairsFrom(_, _, _)
PairsFrom(sw, bj, i) ==
    IF i > Len(sw) THEN <<>>
    ELSE (IF bj[i] # 0 /\ Abs(PairOf(sw, i, bj[i]).v) <= 1500
          THEN <<PairOf(sw, i, bj[i])>> ELSE <<>>)
         \o PairsFrom(sw, bj, i + 1)

\* four times np.percentile(vals, q) for q = 25 * quarter, by linear
\* interpolation between the neighbours of position (n - 1) * q / 100
Percentile4(vals, quarter) ==
    LET t == StableSort(vals, LAMBDA a, b : a < b)
        k == (quarter * (Len(t) - 1)) \div 4
        r == (quarter * (Len(t) - 1)) % 4
    IN  IF r = 0 THEN 4 * t[k + 1]
        ELSE (4 - r) * t[k + 1] + r * t[k + 2]

\* trimmed: the pairs with lo <= v <= hi, or pairs when none is left
Trimmed(ps) ==
    LET vals == [k \in 1..Len(ps) |-> ps[k].v]
        q1 == Percentile4(vals, 1)
        q3 == Percentile4(vals, 3)
        inside == SelectSeq(ps, LAMBDA p :
                      5 * q1 - 3 * q3 <= 8 * p.v /\ 8 * p.v <= 5 * q3 - 3 * q1)
    IN  IF inside = <<>> THEN ps ELSE inside

\* weighted_median: the first value, ascending, at which the weight
\* accumulated reaches half of the total
weighted_median(ps) ==
    LET arr == StableSort(ps, LAMBDA a, b : a.v < b.v)
        tot == Sum([k \in 1..Len(arr) |-> arr[k].w], 1..Len(arr))
        acc(p) == Sum([k \in 1..Len(arr) |-> arr[k].w], 1..p)
    IN  IF ps = <<>> THEN 0
        ELSE arr[CHOOSE p \in 1..Len(arr) :
                    /\ 2 * acc(p) >= tot
                    /\ \A r \in 1..(p - 1) : 2 * acc(r) < tot].v

PairsInit ==
    /\ skew_words \in PairLists
    /\ words_sorted = <<>>
    /\ best_j = <<>>
    /\ pairs = <<>>
    /\ trimmed = <<>>
    /\ pairs_out = <<0, 0>>
    /\ ppc = "call"
    /\ OnlyPairs

\* if not words: return 0.0, 0
PairsEmpty ==
    /\ ppc = "call"
    /\ skew_words = <<>>
    /\ ppc' = "done"
    /\ UNCHANGED <<skew_words, words_sorted, best_j, pairs, trimmed, pairs_out>>
    /\ UNCHANGED not_pairs

\* the medians, the sort and the loop over words_sorted
PairLoop ==
    /\ ppc = "call"
    /\ skew_words # <<>>
    /\ words_sorted' = SortedByRow(skew_words)
    /\ best_j' = [i \in 1..Len(skew_words) |->
                     BestJ(skew_words, words_sorted', i)]
    /\ pairs' = PairsFrom(words_sorted', best_j', 1)
    /\ ppc' = "pairs"
    /\ UNCHANGED <<skew_words, trimmed, pairs_out>>
    /\ UNCHANGED not_pairs

\* if not pairs: return 0.0, 0
PairsNone ==
    /\ ppc = "pairs"
    /\ pairs = <<>>
    /\ ppc' = "done"
    /\ UNCHANGED <<skew_words, words_sorted, best_j, pairs, trimmed, pairs_out>>
    /\ UNCHANGED not_pairs

\* the trim and return float(weighted_median(trimmed)), len(trimmed)
PairsReturn ==
    /\ ppc = "pairs"
    /\ pairs # <<>>
    /\ trimmed' = Trimmed(pairs)
    /\ pairs_out' = <<weighted_median(trimmed'), Len(trimmed')>>
    /\ ppc' = "done"
    /\ UNCHANGED <<skew_words, words_sorted, best_j, pairs>>
    /\ UNCHANGED not_pairs

PairsNext == PairsEmpty \/ PairLoop \/ PairsNone \/ PairsReturn

PairsSpec == PairsInit /\ [][PairsNext]_vars

\* C21: the partner estimate_skew_pairs chooses for a word is the word of
\* least dx >= min_dx among all the words within y_band of it, above or
\* below; a word whose nearest such word lies higher gets a pair of
\* negative angle.
C21_PartnerAmongAllInBand ==
    ppc \in {"pairs", "done"} /\ words_sorted # <<>> =>
        \A i \in 1..Len(words_sorted) :
            LET ok == AcceptedAround(skew_words, words_sorted, i)
            IN  /\ ok = {} => best_j[i] = 0
                /\ ok # {} =>
                      /\ best_j[i] \in ok
                      /\ \A k \in ok : words_sorted[best_j[i]].cx <= words_sorted[k].cx

\* ------------------------------------------------------------------------
\* rotation_matrix_keep_bounds and transform_words
\*
\* An angle is given by its cosine c/d and sine s/d, with integers c, s, d
\* (c * c + s * s = d * d); a coordinate is a fraction with the denominator
\* carried beside it.  The arithmetic is exact; the shapes are chosen so
\* that h*sin + w*cos and h*cos + w*sin are not whole numbers, where int()
\* is the floor.
\* ------------------------------------------------------------------------
MaxTurned == 2

\* 0 degrees, +-16.26 degrees and +-22.62 degrees
Angles ==
    {[c |-> 1, s |-> 0, d |-> 1]}
    \cup {[c |-> 24, s |-> s, d |-> 25] : s \in {7, -7}}
    \cup {[c |-> 12, s |-> s, d |-> 13] : s \in {5, -5}}

Minus(ang) == [ang EXCEPT !.s = -ang.s]

\* a small square image, whose canvas does not grow, and a wide one
Shapes == {<<4, 4>>, <<10, 21>>}

Centroid(x, y) == [cx |-> x, cy |-> y, q |-> 1]

CentroidPool == {Centroid(0, 0), Centroid(2, 2), Centroid(4, 1), Centroid(20, 9)}

CentroidLists == SeqsUpTo(CentroidPool, MaxTurned)

\* new_w = int(h*sin + w*cos); new_h = int(h*cos + w*sin)
new_w(shape, ang) == (shape[1] * Abs(ang.s) + shape[2] * Abs(ang.c)) \div ang.d
new_h(shape, ang) == (shape[1] * Abs(ang.c) + shape[2] * Abs(ang.s)) \div ang.d

\* M of rotation_matrix_keep_bounds, every entry over the denominator q:
\* cv2.getRotationMatrix2D(center, angle_deg, 1.0) is
\*   [[cos, sin, (1 - cos) * cx - sin * cy], [-sin, cos, sin * cx + (1 - cos) * cy]]
\* with center (cx, cy) = (w/2, h/2), and M[0,2] += new_w/2 - cx,
\* M[1,2] += new_h/2 - cy
rotation_matrix_keep_bounds(shape, ang) ==
    LET h == shape[1]
        w == shape[2]
    IN  [m00 |-> 2 * ang.c,
         m01 |-> 2 * ang.s,
         m02 |-> ang.d * new_w(shape, ang) - ang.c * w - ang.s * h,
         m10 |-> -2 * ang.s,
         m11 |-> 2 * ang.c,
         m12 |-> ang.d * new_h(shape, ang) + ang.s * w - ang.c * h,
         q |-> 2 * ang.d]

\* transform_words: M @ [cx, cy, 1.0] for every word, kept beside cx, cy
transform_words(ws, shape, ang) ==
    LET M == rotation_matrix_keep_bounds(shape, ang)
    IN  [i \in 1..Len(ws) |->
            [cx |-> ws[i].cx, cy |-> ws[i].cy, q |-> ws[i].q,
             cx_rot |-> M.m00 * ws[i].cx + M.m01 * ws[i].cy + M.m02 * ws[i].q,
             cy_rot |-> M.m10 * ws[i].cx + M.m11 * ws[i].cy + M.m12 * ws[i].q,
             q_rot |-> M.q * ws[i].q]]

\* the word set whose centroids are the rotated centroids of ws
Moved(ws) ==
    [i \in 1..Len(ws) |-> [cx |-> ws[i].cx_rot, cy |-> ws[i].cy_rot, q |-> ws[i].q_rot]]

RotInit ==
    /\ rt_words \in CentroidLists
    /\ shape_hw \in Shapes
    /\ angle_deg \in Angles
    /\ rot_there = <<>>
    /\ rot_back = <<>>
    /\ rpc = "call"
    /\ OnlyRot

\* transform_words(words, shape_hw, angle_deg)
RotateThere ==
    /\ rpc = "call"
    /\ rot_there' = transform_words(rt_words, shape_hw, angle_deg)
    /\ rpc' = "there"
    /\ UNCHANGED <<rt_words, shape_hw, angle_deg, rot_back>>
    /\ UNCHANGED not_rot

\* transform_words(..., shape_hw, -angle_deg) on the words whose cx, cy are
\* the rotated centroids
RotateBack ==
    /\ rpc = "there"
    /\ rot_back' = transform_words(Moved(rot_there), shape_hw, Minus(angle_deg))
    /\ rpc' = "back"
    /\ UNCHANGED <<rt_words, shape_hw, angle_deg, rot_there>>
    /\ UNCHANGED not_rot

\* transform_words(..., shape_hw, -angle_deg) on the returned words as they
\* are: w["cx"], w["cy"] are read, not the rotated centroids
RotateBackSame ==
    /\ rpc = "there"
    /\ rot_back' = transform_words(rot_there, shape_hw, Minus(angle_deg))
    /\ rpc' = "back_same"
    /\ UNCHANGED <<rt_words, shape_hw, angle_deg, rot_there>>
    /\ UNCHANGED not_rot

RotNext == RotateThere \/ RotateBack \/ RotateBackSame

RotSpec == RotInit /\ [][RotNext]_vars

\* the rotated centroid of word w is within a thousandth of (x, y)
RotatedOnto(w, x, y) ==
    /\ 1000 * Abs(w.cx_rot - w.q_rot * x) <= w.q_rot
    /\ 1000 * Abs(w.cy_rot - w.q_rot * y) <= w.q_rot

\* C22: after transform_words by an angle and then by its negative, with
\* the same image shape, every rotated centroid equals the original
\* centroid within tolerance.
C22_RoundTrip ==
    rpc \in {"back", "back_same"} =>
        \A i \in 1..Len(rt_words) :
            RotatedOnto(rot_back[i], rt_words[i].cx, rt_words[i].cy)

\* ------------------------------------------------------------------------
\* The request handlers of the OCR service and of the Selenium service.
\*
\* The handlers are coroutines of one event loop: a handler runs until it
\* is suspended (on the semaphore, or in await f.read()) or ends, and the
\* others run only then.  lock is free whenever a handler is resumed,
\* because no handler is suspended while it holds it; acquiring it never
\* suspends.
\* ------------------------------------------------------------------------
MaxRequests == 3

MAX_CONCURRENCY == 2

Requests == 1..MaxRequests

\* asyncio.Semaphore(MAX_CONCURRENCY), asyncio.Semaphore(1)
Limit(s) == IF s = "ocr" THEN MAX_CONCURRENCY ELSE 1

\* a semaphore that admits every handler
AlwaysFree(v) == TRUE

\* async with semaphore: the handler goes on when the value is positive
Free(v) == v > 0

\* a job that, when it raises, leaves active_jobs as it is
AfterJobWithoutFinally(a, outcome) == IF outcome = "raised" THEN a ELSE a - 1

\* finally: async with lock: active_jobs -= 1
AfterJob(a, outcome) == a - 1

\* "status": "busy" if active_jobs > 0 or waiting_jobs > 0 else "idle"
Status == IF active_jobs > 0 \/ waiting_jobs > 0 THEN "busy" ELSE "idle"

SemInit ==
    /\ service \in {"ocr", "selenium"}
    /\ semaphore = Limit(service)
    /\ active_jobs = 0
    /\ waiting_jobs = 0
    /\ req = [r \in Requests |-> "new"]
    /\ running = 0
    /\ last_status = ""
    /\ OnlySem

\* _validate_files raises 400 or 415: the request ends before it is counted
Reject(r) ==
    /\ service = "ocr"
    /\ running = 0
    /\ req[r] = "new"
    /\ req' = [req EXCEPT ![r] = "rejected"]
    /\ UNCHANGED <<service, semaphore, active_jobs, waiting_jobs, running, last_status>>
    /\ UNCHANGED not_sem

\* async with lock: waiting_jobs += 1
Count(r) ==
    /\ running = 0
    /\ req[r] = "new"
    /\ waiting_jobs' = waiting_jobs + 1
    /\ req' = [req EXCEPT ![r] = "counted"]
    /\ running' = r
    /\ UNCHANGED <<service, semaphore, active_jobs, last_status>>
    /\ UNCHANGED not_sem

\* async with semaphore, the value is positive: waiting_jobs -= 1,
\* active_jobs += 1
Enter(r) ==
    /\ running = r
    /\ req[r] = "counted"
    /\ Free(semaphore)
    /\ semaphore' = semaphore - 1
    /\ waiting_jobs' = waiting_jobs - 1
    /\ active_jobs' = active_jobs + 1
    /\ req' = [req EXCEPT ![r] = "holding"]
    /\ UNCHANGED <<service, running, last_status>>
    /\ UNCHANGED not_sem

\* async with semaphore, the value is 0: the handler is suspended
Queue(r) ==
    /\ running = r
    /\ req[r] = "counted"
    /\ ~Free(semaphore)
    /\ req' = [req EXCEPT ![r] = "queued"]
    /\ running' = 0
    /\ UNCHANGED <<service, semaphore, active_jobs, waiting_jobs, last_status>>
    /\ UNCHANGED not_sem

\* a suspended handler gets the semaphore: waiting_jobs -= 1,
\* active_jobs += 1
Wake(r) ==
    /\ running = 0
    /\ req[r] = "queued"
    /\ Free(semaphore)
    /\ semaphore' = semaphore - 1
    /\ waiting_jobs' = waiting_jobs - 1
    /\ active_jobs' = active_jobs + 1
    /\ req' = [req EXCEPT ![r] = "holding"]
    /\ running' = r
    /\ UNCHANGED <<service, last_status>>
    /\ UNCHANGED not_sem

\* blobs = [await f.read() for f in files]: the handler is suspended
Read(r) ==
    /\ service = "ocr"
    /\ running = r
    /\ req[r] = "holding"
    /\ req' = [req EXCEPT ![r] = "reading"]
    /\ running' = 0
    /\ UNCHANGED <<service, semaphore, active_jobs, waiting_jobs, last_status>>
    /\ UNCHANGED not_sem

\* the job returns or raises; finally active_jobs -= 1, and the semaphore
\* is released
Finish(r) ==
    /\ \/ service = "ocr" /\ running = 0 /\ req[r] = "reading"
       \/ service = "selenium" /\ running = r /\ req[r] = "holding"
    /\ \E outcome \in {"returned", "raised"} :
          /\ active_jobs' = AfterJob(active_jobs, outcome)
          /\ req' = [req EXCEPT ![r] = outcome]
    /\ semaphore' = semaphore + 1
    /\ running' = 0
    /\ UNCHANGED <<service, waiting_jobs, last_status>>
    /\ UNCHANGED not_sem

\* GET /status
GetStatus ==
    /\ service # "none"
    /\ running = 0
    /\ last_status' = Status
    /\ UNCHANGED <<service, semaphore, active_jobs, waiting_jobs, req, running>>
    /\ UNCHANGED not_sem

SemNext ==
    \/ \E r \in Requests :
          Reject(r) \/ Count(r) \/ Enter(r) \/ Queue(r) \/ Wake(r) \/ Read(r) \/ Finish(r)
    \/ GetStatus

SemSpec == SemInit /\ [][SemNext]_vars

\* the handlers inside async with semaphore
Executing == {r \in Requests : req[r] \in {"holding", "reading"}}

\* the handlers counted and not yet ended
Counted == {r \in Requests : req[r] \in {"counted", "queued", "holding", "reading"}}

Finished == {r \in Requests : req[r] \in {"rejected", "returned", "raised"}}

\* C24: in every interleaving the number of handlers inside the semaphore,
\* and active_jobs, are at most the limit of the semaphore:
\* MAX_CONCURRENCY for the OCR service, 1 for the Selenium service.
C24_AtMostLimitExecuting ==
    service # "none" =>
        /\ Cardinality(Executing) <= Limit(service)
        /\ active_jobs <= Limit(service)
        /\ active_jobs = Cardinality(Executing)

\* the OCR service runs as many jobs as the semaphore allows while a
\* further request is queued
C24_Witness ==
    /\ service = "ocr"
    /\ Cardinality(Executing) = MAX_CONCURRENCY
    /\ active_jobs = MAX_CONCURRENCY
    /\ \E r \in Requests : req[r] = "queued"

\* C25: waiting_jobs and active_jobs are never negative; when every
\* request that was submitted has ended, both are 0 and /status reports
\* "idle"; while a counted request is queued on the semaphore or holds it,
\* /status reports "busy".
C25_CountersBalance ==
    service # "none" =>
        /\ waiting_jobs >= 0
        /\ active_jobs >= 0
        /\ Counted = {} => (waiting_jobs = 0 /\ active_jobs = 0 /\ Status = "idle")
        /\ Counted # {} => Status = "busy"

\* every request has ended, one of them by raising, and /status, which
\* reported "busy" before, would report "idle"
C25_Witness ==
    /\ service # "none"
    /\ Finished = Requests
    /\ \E r \in Requests : req[r] = "raised"
    /\ \E r \in Requests : req[r] = "returned"
    /\ last_status = "busy"
    /\ Status = "idle"


\* ------------------------------------------------------------------------
\* The DDMA sessions: make_session_entry, start_ddma_run, submit_otp,
\* cleanup_session.
\*
\* start_ddma_run is a coroutine of the one event loop: what it does
\* between two awaits is one step.  Its awaits are the sleep after the
\* navigation, the wait for the OTP event and the sleep after the OTP went
\* into the page; submit_otp and cleanup_session may be called by the
\* service at any of them.  What the browser answers is the environment's
\* choice.  A session's dict outlives its registry entry as the local s of
\* the run: entry keeps it for every id.
\* ------------------------------------------------------------------------
MaxSessions == 2

Sids == 1..MaxSessions

\* what a caller may send as the OTP: nothing, or a code
Otps == {<<>>, <<"1", "2", "3", "4", "5", "6">>}

\* the dict of an id make_session_entry has not made
NoEntry ==
    [status |-> "none", otp_event |-> FALSE, otp_value |-> None,
     driver |-> "none", message |-> ""]

\* sessions[sid] = {"status": "created", "otp_event": Event(), ...}
NewEntry ==
    [status |-> "created", otp_event |-> FALSE, otp_value |-> None,
     driver |-> "none", message |-> ""]

\* Python's truth of an OTP: None and "" are false
Truthy(v) == v # None /\ v # <<>>

\* cleanup_session without its finally: the entry stays in the registry
cleanup_keeps_entry(reg, ent, sid, message) ==
    IF sid \notin reg THEN [sessions |-> reg, entry |-> ent]
    ELSE [sessions |-> reg,
          entry |-> [ent EXCEPT
              ![sid].status = IF @ \in {"completed", "error", "not_found"}
                              THEN @ ELSE "error",
              ![sid].message = IF message # "" THEN message ELSE @,
              ![sid].otp_event = TRUE,
              ![sid].driver = IF @ = "none" THEN @ ELSE "quit"]]

\* cleanup_session: nothing for an id not in the registry; otherwise a
\* status that is not final becomes error, the message is kept if given,
\* the OTP event is set, the driver is quit and the id leaves the registry
cleanup_session(reg, ent, sid, message) ==
    IF sid \notin reg THEN [sessions |-> reg, entry |-> ent]
    ELSE [sessions |-> reg \ {sid},
          entry |-> [ent EXCEPT
              ![sid].status = IF @ \in {"completed", "error", "not_found"}
                              THEN @ ELSE "error",
              ![sid].message = IF message # "" THEN message ELSE @,
              ![sid].otp_event = TRUE,
              ![sid].driver = IF @ = "none" THEN @ ELSE "quit"]]

\* submit_otp's guard without its test of the status
AcceptsAnyStatus(reg, ent, sid) == sid \in reg

\* submit_otp goes on when the session exists and waits for the OTP
Accepts(reg, ent, sid) ==
    /\ sid \in reg
    /\ ent[sid].status = "waiting_for_otp"

OtpInit ==
    /\ sessions = {}
    /\ entry = [sid \in Sids |-> NoEntry]
    /\ run = [sid \in Sids |-> "idle"]
    /\ result = [sid \in Sids |-> ""]
    /\ otp_reply = ""
    /\ OnlyOtp

\* make_session_entry: a fresh uuid, one no call has named yet, gets a new
\* dict in the registry
make_session_entry(sid) ==
    /\ entry[sid] = NoEntry
    /\ run[sid] = "idle"
    /\ sessions' = sessions \cup {sid}
    /\ entry' = [entry EXCEPT ![sid] = NewEntry]
    /\ UNCHANGED <<run, result, otp_reply>>
    /\ UNCHANGED not_otp

\* an error path of start_ddma_run: s["status"] = "error", the message,
\* await cleanup_session(sid), return {"status": "error", ...}
Fails(sid, drv, message) ==
    LET marked == [entry EXCEPT ![sid].status = "error",
                                ![sid].message = message,
                                ![sid].driver = drv]
        after == cleanup_session(sessions, marked, sid, "")
    IN  /\ sessions' = after.sessions
        /\ entry' = after.entry
        /\ run' = [run EXCEPT ![sid] = "returned"]
        /\ result' = [result EXCEPT ![sid] = "error"]
        /\ UNCHANGED otp_reply
        /\ UNCHANGED not_otp

\* step1 and step2 succeeded: completed, the removal is scheduled
Completes(sid) ==
    /\ entry' = [entry EXCEPT ![sid].status = "completed",
                              ![sid].message = "completed"]
    /\ run' = [run EXCEPT ![sid] = "scheduled"]
    /\ result' = [result EXCEPT ![sid] = "success"]
    /\ UNCHANGED <<sessions, otp_reply>>
    /\ UNCHANGED not_otp

\* s = sessions.get(sid); if not s: return error "session not found"
StartNotFound(sid) ==
    /\ run[sid] = "idle"
    /\ sid \notin sessions
    /\ run' = [run EXCEPT ![sid] = "returned"]
    /\ result' = [result EXCEPT ![sid] = "error"]
    /\ UNCHANGED <<sessions, entry, otp_reply>>
    /\ UNCHANGED not_otp

\* status running, the driver is configured, the page is opened and the
\* run sleeps for a second
StartNavigates(sid) ==
    /\ run[sid] = "idle"
    /\ sid \in sessions
    /\ entry' = [entry EXCEPT ![sid].status = "running",
                              ![sid].driver = "open"]
    /\ run' = [run EXCEPT ![sid] = "navigated"]
    /\ UNCHANGED <<sessions, result, otp_reply>>
    /\ UNCHANGED not_otp

\* config_driver raised (no driver yet) or the navigation failed
StartFails(sid) ==
    /\ run[sid] = "idle"
    /\ sid \in sessions
    /\ \E drv \in {"none", "open"} :
          Fails(sid, drv, IF drv = "none" THEN "worker exception"
                          ELSE "Navigation failed")

\* login returned OTP_REQUIRED: waiting_for_otp, the run waits for the
\* event with the timeout
LoginOtpRequired(sid) ==
    /\ run[sid] = "navigated"
    /\ entry' = [entry EXCEPT ![sid].status = "waiting_for_otp",
                              ![sid].message = "OTP required for login"]
    /\ run' = [run EXCEPT ![sid] = "waiting"]
    /\ UNCHANGED <<sessions, result, otp_reply>>
    /\ UNCHANGED not_otp

\* login raised, or returned a string that starts with ERROR
LoginError(sid) ==
    /\ run[sid] = "navigated"
    /\ Fails(sid, entry[sid].driver, "ERROR:LOGIN FAILED")

\* login succeeded without OTP and so did step1 and step2
LoginCompleted(sid) ==
    /\ run[sid] = "navigated"
    /\ Completes(sid)

\* login succeeded without OTP, step1 or step2 did not
LoginStepError(sid) ==
    /\ run[sid] = "navigated"
    /\ Fails(sid, entry[sid].driver, "step error")

\* asyncio.TimeoutError: SESSION_OTP_TIMEOUT seconds have passed
OtpTimeout(sid) ==
    /\ run[sid] = "waiting"
    /\ Fails(sid, entry[sid].driver, "OTP timeout")

\* the event was set, but not otp_value
OtpMissing(sid) ==
    /\ run[sid] = "waiting"
    /\ entry[sid].otp_event
    /\ ~Truthy(entry[sid].otp_value)
    /\ Fails(sid, entry[sid].driver, "OTP missing after event")

\* the event was set and the OTP went into the page: otp_submitted, the run
\* sleeps for half a second
OtpIntoPage(sid) ==
    /\ run[sid] = "waiting"
    /\ entry[sid].otp_event
    /\ Truthy(entry[sid].otp_value)
    /\ entry' = [entry EXCEPT ![sid].status = "otp_submitted"]
    /\ run' = [run EXCEPT ![sid] = "otp_submitted"]
    /\ UNCHANGED <<sessions, result, otp_reply>>
    /\ UNCHANGED not_otp

\* the event was set, the page did not take the OTP
OtpPageFails(sid) ==
    /\ run[sid] = "waiting"
    /\ entry[sid].otp_event
    /\ Truthy(entry[sid].otp_value)
    /\ Fails(sid, entry[sid].driver, "Failed to submit OTP into page")

\* after the OTP: step1 and step2 succeeded
AfterOtpCompleted(sid) ==
    /\ run[sid] = "otp_submitted"
    /\ Completes(sid)

\* after the OTP: the detection raised, or step1 or step2 failed
AfterOtpError(sid) ==
    /\ run[sid] = "otp_submitted"
    /\ Fails(sid, entry[sid].driver, "step error")

\* _remove_session_later: the scheduled cleanup_session(sid)
RemoveLater(sid) ==
    /\ run[sid] = "scheduled"
    /\ LET after == cleanup_session(sessions, entry, sid, "")
       IN  /\ sessions' = after.sessions
           /\ entry' = after.entry
    /\ run' = [run EXCEPT ![sid] = "returned"]
    /\ UNCHANGED <<result, otp_reply>>
    /\ UNCHANGED not_otp

\* submit_otp(sid, otp), called by the service
submit_otp(sid, otp) ==
    /\ IF Accepts(sessions, entry, sid)
       THEN /\ entry' = [entry EXCEPT ![sid].otp_value = otp,
                                      ![sid].otp_event = TRUE]
            /\ otp_reply' = "ok"
       ELSE /\ entry' = entry
            /\ otp_reply' = "error"
    /\ UNCHANGED <<sessions, run, result>>
    /\ UNCHANGED not_otp

\* cleanup_session(sid, message), called by the service
CleanupCall(sid, message) ==
    /\ LET after == cleanup_session(sessions, entry, sid, message)
       IN  /\ sessions' = after.sessions
           /\ entry' = after.entry
    /\ UNCHANGED <<run, result, otp_reply>>
    /\ UNCHANGED not_otp

Runs(sid) ==
    \/ StartNotFound(sid)
    \/ StartNavigates(sid)
    \/ StartFails(sid)
    \/ LoginOtpRequired(sid)
    \/ LoginError(sid)
    \/ LoginCompleted(sid)
    \/ LoginStepError(sid)
    \/ OtpTimeout(sid)
    \/ OtpMissing(sid)
    \/ OtpIntoPage(sid)
    \/ OtpPageFails(sid)
    \/ AfterOtpCompleted(sid)
    \/ AfterOtpError(sid)
    \/ RemoveLater(sid)

OtpNext ==
    \/ \E sid \in Sids : make_session_entry(sid)
    \/ \E sid \in Sids : Runs(sid)
    \/ \E sid \in Sids, otp \in Otps : submit_otp(sid, otp)
    \/ \E sid \in Sids, message \in {"", "closed"} : CleanupCall(sid, message)

OtpSpec == OtpInit /\ [][OtpNext]_vars

\* the timer of asyncio.wait_for fires when the run still waits after
\* SESSION_OTP_TIMEOUT seconds
OtpLive == OtpSpec /\ \A sid \in Sids : WF_vars(OtpTimeout(sid))

\* C26: submit_otp is accepted only for a session of the registry whose
\* status is waiting_for_otp: it then stores the OTP, sets the event and
\* answers ok; for an unknown id or another status it answers error and
\* leaves the OTP, the event, the status and the registry as they were.
C26_SubmitOtpOnlyWhenWaiting ==
    [][\A sid \in Sids, otp \in Otps :
          submit_otp(sid, otp) =>
              IF sid \in sessions /\ entry[sid].status = "waiting_for_otp"
              THEN /\ entry'[sid].otp_value = otp
                   /\ entry'[sid].otp_event
                   /\ otp_reply' = "ok"
              ELSE /\ otp_reply' = "error"
                   /\ entry' = entry
                   /\ sessions' = sessions]_vars

\* an OTP was accepted: the session still waits, with the OTP stored and
\* its event set
C26_Witness ==
    /\ otp_reply = "ok"
    /\ \E sid \in sessions :
          /\ run[sid] = "waiting"
          /\ entry[sid].status = "waiting_for_otp"
          /\ Truthy(entry[sid].otp_value)
          /\ entry[sid].otp_event

\* a second cleanup_session on the same id changes nothing
Idempotent ==
    \A sid \in Sids, message \in {"", "closed"} :
        LET once == cleanup_session(sessions, entry, sid, message)
        IN  cleanup_session(once.sessions, once.entry, sid, message) = once

\* a run leaves the wait for the OTP either with an OTP that went into the
\* page, or with an error result and its session out of the registry
LeavesWaiting ==
    \A sid \in Sids :
        (run[sid] = "waiting" /\ run'[sid] # "waiting") =>
            \/ /\ run'[sid] = "otp_submitted"
               /\ Truthy(entry[sid].otp_value)
            \/ /\ run'[sid] = "returned"
               /\ result'[sid] = "error"
               /\ sid \notin sessions'

\* C27: a run that waits for the OTP does not wait forever; it leaves the
\* wait with a submitted OTP, or with an error result and its session
\* removed; cleanup_session is idempotent; a session whose run returned an
\* error is not in the registry.
C27_OtpWaitEnds ==
    /\ \A sid \in Sids : (run[sid] = "waiting") ~> (run[sid] # "waiting")
    /\ [][LeavesWaiting]_vars
    /\ [](Idempotent)
    /\ [](\A sid \in Sids : result[sid] = "error" => sid \notin sessions)

\* a run timed out waiting for the OTP and its session is gone
C27_Witness ==
    \E sid \in Sids :
        /\ run[sid] = "returned"
        /\ result[sid] = "error"
        /\ entry[sid].message = "OTP timeout"
        /\ entry[sid].otp_value = None
        /\ sid \notin sessions

====
